---- MODULE Spec2Model ----
(***************************************************************************)
(* Model of the network monitor's monitoring/recovery control loop:        *)
(* monitor::start_monitoring, monitor::perform_recovery_actions and the    *)
(* pieces of utils::logging, ctrlc and service_main they depend on.        *)
(*                                                                         *)
(* Each invocation of start_monitoring is a "call" p with its own program  *)
(* counter pc[p] and its own locals (running, all_targets_failed, ...).    *)
(* The process-wide statics are MONITORING_ACTIVE, LOGGER_INIT and the     *)
(* single Ctrl+C handler slot of the ctrlc crate.  Outcomes of probes and  *)
(* external commands are chosen nondeterministically.                      *)
(***************************************************************************)
EXTENDS Integers, Sequences, FiniteSets, TLC

\* ------------------------------------------------------------------ bounds
MaxCalls == 2      \* start_monitoring invocations in one process
MaxTargets == 2    \* length of config.targets
MaxRetry == 2      \* largest retry count (global or per-target override)
MaxActions == 3    \* length of config.recovery_actions
MaxSignals == 1    \* Ctrl+C presses during a foreground run
MaxThreads == 2    \* monitoring threads the dashboard spawns
MaxSaves == 1      \* configuration replacements in the dashboard
MaxLoads == 2      \* load_config calls on one path

Calls == 1..MaxCalls
Threads == 1..MaxThreads

\* ------------------------------------------------------------- Option<T>
\* Option<T> is a sequence of length 0 (None) or 1 (Some(v)).
None == <<>>
Some(v) == <<v>>
unwrap_or(o, d) == IF o = None THEN d ELSE o[1]

SeqsUpTo(S, n) == UNION {[1..k -> S] : k \in 0..n}

\* ------------------------------------------------------------ config types
RetryCounts == 0..MaxRetry

NetworkTarget == [retry_count : {None} \cup {Some(n) : n \in RetryCounts},
                  port : {None, Some(80)}]

RecoveryAction == [wait_after_ms : {None, Some(0)}]

VARIABLES
  config,              \* the Config handed to start_monitoring
  ncalls,              \* how many start_monitoring calls the process makes
  MONITORING_ACTIVE,   \* static AtomicBool, monitor/mod.rs
  LOGGER_INIT,         \* static Once of utils/mod.rs: has call_once run
  logger,              \* which logger is installed: "none", "console", "file"
  handler_installed,   \* ctrlc: a process-wide handler is registered
  handler_flag,        \* the call whose `running` the handler clears (0: none of them)
  pc,                  \* per call: position in start_monitoring
  result,              \* per call: "none", "Ok" or "Err" (the Result returned)
  running,             \* per call: local Arc<AtomicBool> running
  all_targets_failed,  \* per call: local of the cycle
  target,              \* per call: index of the current target in config.targets
  retry_count,         \* per call: local retry_count of the current target
  attempt,             \* per call: loop variable of the retry loop
  success,             \* per call: local success of the current target
  action,              \* per call: index of the current recovery action
  outcomes,            \* per call, per target: outcomes of the pings of this cycle
  logged,              \* per call, per target: attempt log lines of this cycle
  final,               \* per call, per target: "none", "ok", "failed" at the end of its retries
  backoffs,            \* per call, per target: the attempts after which a 500 ms backoff began
  recovery_invoked,    \* per call: perform_recovery_actions was called in this cycle
  run_log,             \* per call: what the recovery run of this cycle did, per attempted action
  rec_result,          \* per call: Result of perform_recovery_actions ("none", "Ok", "Err")
  notified,            \* per call: outcomes of the notification command in this recovery run
  main_pc,             \* position of main's no-subcommand run ("none": no such run)
  rx,                  \* messages in the channel that main's Ctrl+C handler sends to
  exit_code,           \* exit code of the process: None while it runs
  monitoring_active,   \* dashboard: NetworkMonitorApp.monitoring_active
  nthreads,            \* dashboard: monitoring threads spawned so far
  thread_pc,           \* dashboard, per monitoring thread: its position
  thread_target,       \* dashboard, per monitoring thread: index of the target being polled
  config_lock,         \* dashboard: holder of the Mutex<Config>: "free" or "recovery"
  recovery_in_progress,\* dashboard: NetworkMonitorApp.recovery_in_progress
  recovery_promise,    \* dashboard: "none", "pending", or the result "Ok" / "Err"
  rt_pc,               \* dashboard: position of the manual recovery thread
  rt_action,           \* dashboard: index of the action the recovery thread is at
  thread_snapshot,     \* dashboard, per monitoring thread: its copy of targets and ping_timeout
  thread_status,       \* dashboard, per monitoring thread: its local TargetStatus (None outside a target)
  target_statuses,     \* dashboard: the shared map from target name to TargetStatus
  saves,               \* dashboard: configuration replacements made in the settings editor
  cs_pc,               \* check_status: where the pass is ("none" when it was not called)
  cs_target,           \* check_status: index of the target of the for loop
  cs_checks,           \* check_status: the probes and port checks made, in order
  cs_result,           \* check_status: the value returned (None before the return)
  cf_file,             \* the configuration file: None when absent, else Some(document)
  cf_written,          \* the configuration that the program last wrote to the file, if any
  cf_last,             \* the result of the last load_config since the file was last saved
  cf_loads,            \* load_config calls made
  svc_log              \* service_main: statuses reported to the OS and the steps around them, in order

vars == <<config, ncalls, MONITORING_ACTIVE, LOGGER_INIT, logger, handler_installed,
          handler_flag, pc, result, running, all_targets_failed, target, retry_count,
          attempt, success, action, outcomes, logged, final, backoffs,
          recovery_invoked,
          run_log, rec_result, notified, main_pc, rx, exit_code,
          monitoring_active, nthreads, thread_pc, thread_target, config_lock,
          recovery_in_progress, recovery_promise, rt_pc, rt_action,
          thread_snapshot, thread_status, target_statuses, saves,
          cs_pc, cs_target, cs_checks, cs_result,
          cf_file, cf_written, cf_last, cf_loads, svc_log>>

statics == <<MONITORING_ACTIVE, LOGGER_INIT, logger, handler_installed, handler_flag>>
cycle_locals == <<all_targets_failed, target, retry_count, attempt, success>>
cycle_obs == <<outcomes, logged, final, backoffs, recovery_invoked>>
rec_obs == <<run_log, rec_result, notified>>
status_state == <<cs_pc, cs_target, cs_checks, cs_result>>
file_state == <<cf_file, cf_written, cf_last, cf_loads>>
main_state == <<main_pc, rx, exit_code, status_state, file_state, svc_log>>
gui_state == <<monitoring_active, nthreads, thread_pc, thread_target, config_lock,
               recovery_in_progress, recovery_promise, rt_pc, rt_action,
               thread_snapshot, thread_status, target_statuses, saves>>


\* ------------------------------------------------------------------- Init
\* Config::get_target_retry_count
get_target_retry_count(cfg, t) == unwrap_or(t.retry_count, cfg.retry_count)

BaseTarget == [retry_count |-> None, port |-> None]
BaseAction == [wait_after_ms |-> None]

BaseConfig == [default_target |-> "8.8.8.8",
               ping_timeout_ms |-> 1000,
               retry_count |-> 1,
               targets |-> <<BaseTarget>>,
               recovery_actions |-> <<BaseAction>>,
               log_file |-> None,
               notification_enabled |-> FALSE,
               notification_command |-> None]

\* Configurations that vary what the guard and the setup steps read.
GuardConfigs == {[BaseConfig EXCEPT !.log_file = f] :
                   f \in {None, Some("network_monitor.log")}}

\* Configurations that vary what a probe cycle reads.
CycleConfigs == {[BaseConfig EXCEPT !.retry_count = n, !.targets = ts,
                                    !.recovery_actions = as] :
                   n \in RetryCounts,
                   ts \in SeqsUpTo(NetworkTarget, MaxTargets),
                   as \in {<<>>, <<BaseAction>>}}

\* Configurations that vary what a recovery run reads.
RecoveryConfigs == {[BaseConfig EXCEPT !.recovery_actions = as,
                                       !.notification_enabled = e,
                                       !.notification_command = c] :
                      as \in SeqsUpTo(RecoveryAction, MaxActions),
                      e \in BOOLEAN,
                      c \in {None, Some("notify")}}

\* ------------------------------------------------------------ config file
\* config/mod.rs:45-80.  Config::default().
Config_default ==
  [default_target |-> "8.8.8.8",
   check_interval_sec |-> 60,
   ping_timeout_ms |-> 1000,
   retry_count |-> 3,
   targets |-> <<[name |-> "Google DNS", address |-> "8.8.8.8", port |-> None,
                  timeout_ms |-> Some(1000), retry_count |-> Some(3)],
                 [name |-> "Local Router", address |-> "192.168.1.1", port |-> None,
                  timeout_ms |-> Some(500), retry_count |-> Some(2)]>>,
   recovery_actions |-> <<[name |-> "restart adapter", command |-> "powershell Restart-NetAdapter",
                           wait_after_ms |-> Some(5000)]>>,
   log_file |-> Some("network_monitor.log"),
   notification_enabled |-> TRUE,
   notification_command |-> Some("powershell MessageBox")]

\* config/mod.rs:16-43.  The fields of the three structs that are Option<T>,
\* and those that are not: serde writes no key for a None and reads a missing
\* key of an Option field as None; a missing key of another field is an error.
ConfigOptions == {"log_file", "notification_command"}
ConfigRequired == {"default_target", "check_interval_sec", "ping_timeout_ms", "retry_count",
                   "targets", "recovery_actions", "notification_enabled"}
TargetOptions == {"port", "timeout_ms", "retry_count"}
TargetRequired == {"name", "address"}
ActionOptions == {"wait_after_ms"}
ActionRequired == {"name", "command"}

\* The TOML table of a struct value: one key for each field that is not an
\* Option and for each Option field that is Some, with the value inside.
ser_table(r, options) ==
  [k \in {f \in DOMAIN r : f \notin options \/ r[f] # None} |->
     IF k \in options THEN r[k][1] ELSE r[k]]

\* config/mod.rs:96, 110.  toml::to_string_pretty of a Config: the table of
\* the Config, with an array of tables for targets and for recovery_actions.
to_string_pretty(cfg) ==
  LET top == ser_table(cfg, ConfigOptions) IN
  [k \in DOMAIN top |->
     IF k = "targets"
       THEN [i \in 1..Len(cfg.targets) |-> ser_table(cfg.targets[i], TargetOptions)]
       ELSE IF k = "recovery_actions"
              THEN [i \in 1..Len(cfg.recovery_actions) |->
                      ser_table(cfg.recovery_actions[i], ActionOptions)]
              ELSE top[k]]

\* A TOML table has every key that the struct requires.
complete(table, required) == required \subseteq DOMAIN table

\* The struct value read from a TOML table that is complete: the keys the
\* struct does not have are ignored, an Option field is Some of the value of
\* its key, or None when the key is missing.
de_table(table, required, options) ==
  [k \in required \cup options |->
     IF k \in options
       THEN IF k \in DOMAIN table THEN Some(table[k]) ELSE None
       ELSE table[k]]

Ok(v) == [ok |-> TRUE, value |-> v]
Err(e) == [ok |-> FALSE, value |-> e]

\* config/mod.rs:104; gui/mod.rs:284.  toml::from_str::<Config>: an error
\* when a required key is missing in the document or in one of its targets
\* or recovery actions, else the Config read from the document.
from_str(doc) ==
  IF /\ complete(doc, ConfigRequired)
     /\ \A i \in DOMAIN doc.targets : complete(doc.targets[i], TargetRequired)
     /\ \A i \in DOMAIN doc.recovery_actions : complete(doc.recovery_actions[i], ActionRequired)
    THEN LET top == de_table(doc, ConfigRequired, ConfigOptions) IN
         Ok([k \in DOMAIN top |->
               IF k = "targets"
                 THEN [i \in DOMAIN doc.targets |->
                         de_table(doc.targets[i], TargetRequired, TargetOptions)]
                 ELSE IF k = "recovery_actions"
                        THEN [i \in DOMAIN doc.recovery_actions |->
                                de_table(doc.recovery_actions[i], ActionRequired, ActionOptions)]
                        ELSE top[k]])
    ELSE Err("ParseError")

\* Configurations that a caller saves: no target, a target with a port and
\* without overrides, no recovery action, an action without a post-wait, no
\* log file, no notification.
FileConfigs ==
  {[Config_default EXCEPT !.targets = <<>>, !.log_file = None],
   [Config_default EXCEPT
      !.targets = <<[name |-> "web", address |-> "10.0.0.2", port |-> Some(443),
                     timeout_ms |-> None, retry_count |-> None]>>,
      !.recovery_actions = <<[name |-> "flush dns", command |-> "ipconfig /flushdns",
                              wait_after_ms |-> None]>>,
      !.notification_enabled = FALSE,
      !.notification_command = None],
   [Config_default EXCEPT !.recovery_actions = <<>>, !.retry_count = 0]}

\* A configuration file written by hand that lacks the key retry_count.
IncompleteFile ==
  [k \in DOMAIN to_string_pretty(Config_default) \ {"retry_count"} |->
     to_string_pretty(Config_default)[k]]

\* No load_config and no save_config call was made yet.
NoLoad ==
  /\ cf_written = None
  /\ cf_last = None
  /\ cf_loads = 0

InitCalls ==
  /\ MONITORING_ACTIVE = FALSE
  /\ handler_flag = 0
  /\ pc = [p \in Calls |-> "call"]
  /\ result = [p \in Calls |-> "none"]
  /\ running = [p \in Calls |-> TRUE]
  /\ all_targets_failed = [p \in Calls |-> TRUE]
  /\ target = [p \in Calls |-> 0]
  /\ retry_count = [p \in Calls |-> 0]
  /\ attempt = [p \in Calls |-> 0]
  /\ success = [p \in Calls |-> FALSE]
  /\ action = [p \in Calls |-> 0]
  /\ outcomes = [p \in Calls |-> <<>>]
  /\ logged = [p \in Calls |-> <<>>]
  /\ final = [p \in Calls |-> <<>>]
  /\ backoffs = [p \in Calls |-> <<>>]
  /\ recovery_invoked = [p \in Calls |-> FALSE]
  /\ run_log = [p \in Calls |-> <<>>]
  /\ rec_result = [p \in Calls |-> "none"]
  /\ notified = [p \in Calls |-> <<>>]

\* Config::get_target_timeout
get_target_timeout(cfg, t) == unwrap_or(t.timeout_ms, cfg.ping_timeout_ms)

\* gui/mod.rs:23-32.  TargetStatus::new: the port is copied from the target,
\* no result yet.
TargetStatus_new(tg) ==
  [name |-> tg.name, address |-> tg.address, port |-> tg.port,
   ping_result |-> None, port_result |-> None]

\* A map without entries, and a map with the entry of key k set to v.
EmptyMap == [k \in {} |-> None]
Insert(m, k, v) == [n \in DOMAIN m \cup {k} |-> IF n = k THEN v ELSE m[n]]

\* The names of a list of targets.
Names(targets) == {targets[i].name : i \in 1..Len(targets)}

\* The locals of a monitoring thread before its first snapshot.
NoSnapshot == [targets |-> <<>>, ping_timeout |-> 0]

\* gui/mod.rs:115-129.  The dashboard's state as NetworkMonitorApp::new makes
\* it: not monitoring, no thread, no recovery run.
NewApp ==
  /\ monitoring_active = FALSE
  /\ nthreads = 0
  /\ thread_pc = [t \in Threads |-> "unspawned"]
  /\ thread_target = [t \in Threads |-> 0]
  /\ config_lock = "free"
  /\ recovery_in_progress = FALSE
  /\ recovery_promise = "none"
  /\ rt_pc = "none"
  /\ rt_action = 0
  /\ thread_snapshot = [t \in Threads |-> NoSnapshot]
  /\ thread_status = [t \in Threads |-> None]
  /\ saves = 0
  /\ cs_pc = "none"
  /\ cs_target = 0
  /\ cs_checks = <<>>
  /\ cs_result = None
  /\ svc_log = <<>>

\* start_monitoring is called by a caller other than main's no-subcommand run.
NoMain ==
  /\ target_statuses = EmptyMap
  /\ cf_file = None
  /\ NoLoad
  /\ main_pc = "none"
  /\ rx = 0
  /\ exit_code = None

\* Several start_monitoring calls in a process whose main may already have
\* registered a Ctrl+C handler (main.rs:58) and set up the console logger
\* (main.rs:74) before the first of them.
InitGuard ==
  /\ InitCalls
  /\ NewApp
  /\ config \in GuardConfigs
  /\ ncalls \in 1..MaxCalls
  /\ handler_installed \in BOOLEAN
  /\ LOGGER_INIT \in BOOLEAN
  /\ logger = IF LOGGER_INIT THEN "console" ELSE "none"
  /\ NoMain

InitCycle ==
  /\ InitCalls
  /\ NewApp
  /\ config \in CycleConfigs
  /\ ncalls = 1
  /\ handler_installed = FALSE
  /\ LOGGER_INIT = FALSE
  /\ logger = "none"
  /\ NoMain

InitRecovery ==
  /\ InitCalls
  /\ NewApp
  /\ config \in RecoveryConfigs
  /\ ncalls = 1
  /\ handler_installed = FALSE
  /\ LOGGER_INIT = FALSE
  /\ logger = "none"
  /\ NoMain

\* main.rs:55-56.  The process was started without a subcommand and with a
\* configuration file that loads: main is about to register its Ctrl+C
\* handler, and no start_monitoring task exists yet.
InitForeground ==
  /\ InitCalls
  /\ NewApp
  /\ config \in GuardConfigs
  /\ ncalls = 0
  /\ handler_installed = FALSE
  /\ LOGGER_INIT = FALSE
  /\ logger = "none"
  /\ main_pc = "set_handler"
  /\ rx = 0
  /\ exit_code = None
  /\ target_statuses = EmptyMap
  /\ cf_file = Some(to_string_pretty(config))
  /\ NoLoad

\* Targets of the dashboard's configurations: "gateway" without overrides, the
\* same name with a port, and "web" with a port and a timeout override.
Gateway == [name |-> "gateway", address |-> "192.168.0.1", port |-> None,
            timeout_ms |-> None, retry_count |-> None]
GatewayPort == [Gateway EXCEPT !.port = Some(80)]
Web == [name |-> "web", address |-> "10.0.0.2", port |-> Some(80),
        timeout_ms |-> Some(200), retry_count |-> None]

\* Configurations of the dashboard: one or two targets, and a plan of one or
\* two actions, one of them with a post-wait.
GuiConfigs ==
  {[BaseConfig EXCEPT !.targets = <<Gateway>>, !.recovery_actions = <<BaseAction>>],
   [BaseConfig EXCEPT !.targets = <<GatewayPort>>, !.recovery_actions = <<BaseAction>>],
   [BaseConfig EXCEPT !.targets = <<Gateway, Web>>,
                      !.recovery_actions = <<[BaseAction EXCEPT !.wait_after_ms = Some(0)], BaseAction>>]}

\* gui/mod.rs:97-107.  The status map starts with one new status per target
\* of the loaded configuration.
InitialStatuses(cfg) ==
  [n \in Names(cfg.targets) |->
     TargetStatus_new(CHOOSE tg \in {cfg.targets[i] : i \in 1..Len(cfg.targets)} : tg.name = n)]

\* main.rs:150-153, gui/mod.rs:80-130.  The process runs the dashboard: the
\* window is open, nothing was clicked yet; monitor::start_monitoring is not
\* called in this process.
InitGui ==
  /\ InitCalls
  /\ NewApp
  /\ config \in GuiConfigs
  /\ ncalls = 0
  /\ handler_installed = TRUE
  /\ LOGGER_INIT = TRUE
  /\ logger = "console"
  /\ main_pc = "gui"
  /\ rx = 0
  /\ exit_code = None
  /\ target_statuses = InitialStatuses(config)
  /\ cf_file = Some(to_string_pretty(config))
  /\ NoLoad

\* Configurations of the status subcommand: up to MaxTargets targets, with
\* and without a port, and retry counts above one.
StatusConfigs ==
  {[BaseConfig EXCEPT !.retry_count = MaxRetry, !.targets = ts] :
     ts \in SeqsUpTo({BaseTarget,
                      [BaseTarget EXCEPT !.port = Some(80), !.retry_count = Some(MaxRetry)]},
                     MaxTargets)}

\* main.rs:55-91, 130-132.  A process started with the status subcommand:
\* main has installed its Ctrl+C handler and the console logger and has loaded
\* the configuration; it is about to call check_status.
InitStatus ==
  /\ InitCalls
  /\ NewApp
  /\ config \in StatusConfigs
  /\ ncalls = 0
  /\ handler_installed = TRUE
  /\ LOGGER_INIT = TRUE
  /\ logger = "console"
  /\ main_pc = "status"
  /\ rx = 0
  /\ exit_code = None
  /\ target_statuses = EmptyMap
  /\ cf_file = Some(to_string_pretty(config))
  /\ NoLoad

\* main.rs:83-85; gui/mod.rs:90.  A process that is about to load its
\* configuration from a path where no file exists, or an incomplete one; config
\* holds the default until a load returns a configuration.
InitLoad ==
  /\ InitCalls
  /\ NewApp
  /\ config = Config_default
  /\ ncalls = 0
  /\ handler_installed = TRUE
  /\ LOGGER_INIT = TRUE
  /\ logger = "console"
  /\ main_pc = "load_config"
  /\ rx = 0
  /\ exit_code = None
  /\ target_statuses = EmptyMap
  /\ cf_file \in {None, Some(IncompleteFile)}
  /\ NoLoad

\* main.rs:57-62, 72, 83-91, 122; service/mod.rs:100-107.  The process was
\* started by the OS with the service subcommand: main has registered its
\* Ctrl+C handler, has set up no logger and has loaded its configuration, and
\* the dispatcher is about to call service_main.
InitService ==
  /\ InitCalls
  /\ NewApp
  /\ config \in GuardConfigs
  /\ ncalls = 0
  /\ handler_installed = TRUE
  /\ LOGGER_INIT = FALSE
  /\ logger = "none"
  /\ main_pc = "service_main"
  /\ rx = 0
  /\ exit_code = None
  /\ target_statuses = EmptyMap
  /\ cf_file = Some(to_string_pretty(config))
  /\ NoLoad

\* The starts without the dashboard: callers of start_monitoring, and main
\* with the default action, the status subcommand, loading its configuration,
\* or the service subcommand.
InitCli ==
  \/ InitGuard \/ InitCycle \/ InitRecovery \/ InitForeground \/ InitStatus \/ InitLoad
  \/ InitService

Init == InitCli \/ InitGui

\* --------------------------------------------------------------- helpers
NTargets == Len(config.targets)
NActions == Len(config.recovery_actions)

\* The locals of a call are dropped when its future completes or is dropped.
DropLocals(p) ==
  /\ all_targets_failed' = [all_targets_failed EXCEPT ![p] = TRUE]
  /\ target' = [target EXCEPT ![p] = 0]
  /\ retry_count' = [retry_count EXCEPT ![p] = 0]
  /\ attempt' = [attempt EXCEPT ![p] = 0]
  /\ success' = [success EXCEPT ![p] = FALSE]
  /\ action' = [action EXCEPT ![p] = 0]
  /\ outcomes' = [outcomes EXCEPT ![p] = <<>>]
  /\ logged' = [logged EXCEPT ![p] = <<>>]
  /\ final' = [final EXCEPT ![p] = <<>>]
  /\ backoffs' = [backoffs EXCEPT ![p] = <<>>]
  /\ recovery_invoked' = [recovery_invoked EXCEPT ![p] = FALSE]
  /\ run_log' = [run_log EXCEPT ![p] = <<>>]
  /\ rec_result' = [rec_result EXCEPT ![p] = "none"]
  /\ notified' = [notified EXCEPT ![p] = <<>>]

Return(p, r) ==
  /\ pc' = [pc EXCEPT ![p] = "returned"]
  /\ result' = [result EXCEPT ![p] = r]

\* The places where start_monitoring is suspended at an .await that yields to
\* the runtime: the sleeps and the external command executions.
YieldPoints == {"backoff", "rec_exec", "rec_wait", "rec_notify", "sleep"}

\* A call is inside the body of start_monitoring: past the guard check and
\* not yet returned or dropped.
InBody(p) == pc[p] \notin {"call", "returned", "aborted"}


\* ------------------------------------------------- start_monitoring: setup
\* Mutant of StartMonitoring: the flag is stored without looking at the value
\* it had (store(true) in place of swap(true)).
StartMonitoring_NoCheck(p) ==
  /\ pc[p] = "call"
  /\ MONITORING_ACTIVE' = TRUE
  /\ pc' = [pc EXCEPT ![p] = "setup_logger"]
  /\ UNCHANGED <<config, ncalls, main_state, gui_state, LOGGER_INIT, logger, handler_installed, handler_flag,
                 result, running, action>>
  /\ UNCHANGED <<cycle_locals, cycle_obs, rec_obs>>

\* Mutant of StartMonitoring: the early return clears the flag like the normal
\* exit does.
StartMonitoring_ClearOnReject(p) ==
  /\ pc[p] = "call"
  /\ IF MONITORING_ACTIVE
       THEN /\ MONITORING_ACTIVE' = FALSE
            /\ Return(p, "Ok")
       ELSE /\ MONITORING_ACTIVE' = TRUE
            /\ pc' = [pc EXCEPT ![p] = "setup_logger"]
            /\ UNCHANGED result
  /\ UNCHANGED <<config, ncalls, main_state, gui_state, LOGGER_INIT, logger, handler_installed, handler_flag,
                 running, action>>
  /\ UNCHANGED <<cycle_locals, cycle_obs, rec_obs>>

\* monitor/mod.rs:48-53.  swap(true) sets the flag whatever it was and hands
\* back the old value; a call that finds it set warns and returns Ok(()).
StartMonitoring(p) ==
  /\ pc[p] = "call"
  /\ MONITORING_ACTIVE' = TRUE
  /\ IF MONITORING_ACTIVE
       THEN Return(p, "Ok")
       ELSE /\ pc' = [pc EXCEPT ![p] = "setup_logger"]
            /\ UNCHANGED result
  /\ UNCHANGED <<config, ncalls, main_state, gui_state, LOGGER_INIT, logger, handler_installed, handler_flag,
                 running, action>>
  /\ UNCHANGED <<cycle_locals, cycle_obs, rec_obs>>

\* Mutant of setup_file_logger: the closure runs without the Once.
setup_file_logger_NoOnce ==
  /\ LOGGER_INIT' = TRUE
  /\ \E created \in BOOLEAN : logger' = IF created THEN "file" ELSE logger

\* utils/mod.rs:19-52.  call_once runs its closure only the first time in the
\* process; the closure installs the file logger unless File::create fails.
\* The function returns Ok(()) in every case.
setup_file_logger ==
  /\ LOGGER_INIT' = TRUE
  /\ IF LOGGER_INIT
       THEN logger' = logger
       ELSE \E created \in BOOLEAN : logger' = IF created THEN "file" ELSE "none"

\* monitor/mod.rs:55-60.  The `?` has no error to propagate.
SetupLogger(p) ==
  /\ pc[p] = "setup_logger"
  /\ IF config.log_file # None
       THEN setup_file_logger
       ELSE UNCHANGED <<LOGGER_INIT, logger>>
  /\ pc' = [pc EXCEPT ![p] = "set_handler"]
  /\ UNCHANGED <<config, ncalls, main_state, gui_state, MONITORING_ACTIVE, handler_installed, handler_flag,
                 result, running, action>>
  /\ UNCHANGED <<cycle_locals, cycle_obs, rec_obs>>

\* monitor/mod.rs:63-68.  ctrlc::set_handler fails when the process already
\* has a handler (MultipleHandlers) or on a system error; the `?` then returns
\* the error, and nothing on that path touches MONITORING_ACTIVE.
SetHandler(p) ==
  /\ pc[p] = "set_handler"
  /\ running' = [running EXCEPT ![p] = TRUE]
  /\ \E system_ok \in BOOLEAN :
       IF ~handler_installed /\ system_ok
         THEN /\ handler_installed' = TRUE
              /\ handler_flag' = p
              /\ pc' = [pc EXCEPT ![p] = "loop_head"]
              /\ UNCHANGED result
         ELSE /\ Return(p, "Err")
              /\ UNCHANGED <<handler_installed, handler_flag>>
  /\ UNCHANGED <<config, ncalls, main_state, gui_state, MONITORING_ACTIVE, LOGGER_INIT, logger, action>>
  /\ UNCHANGED <<cycle_locals, cycle_obs, rec_obs>>

\* monitor/mod.rs:65-68.  The registered closure: r.store(false).
CtrlC(p) ==
  /\ handler_installed
  /\ handler_flag = p
  /\ running[p]
  /\ running' = [running EXCEPT ![p] = FALSE]
  /\ UNCHANGED <<config, ncalls, main_state, gui_state, statics, pc, result, action>>
  /\ UNCHANGED <<cycle_locals, cycle_obs, rec_obs>>

\* ------------------------------------------------- start_monitoring: cycle
\* monitor/mod.rs:74-75.  The loop condition holds: a new cycle starts.
LoopEnter(p) ==
  /\ pc[p] = "loop_head"
  /\ running[p]
  /\ all_targets_failed' = [all_targets_failed EXCEPT ![p] = TRUE]
  /\ target' = [target EXCEPT ![p] = 0]
  /\ retry_count' = [retry_count EXCEPT ![p] = 0]
  /\ attempt' = [attempt EXCEPT ![p] = 0]
  /\ success' = [success EXCEPT ![p] = FALSE]
  /\ action' = [action EXCEPT ![p] = 0]
  /\ outcomes' = [outcomes EXCEPT ![p] = [i \in 1..NTargets |-> <<>>]]
  /\ logged' = [logged EXCEPT ![p] = [i \in 1..NTargets |-> 0]]
  /\ final' = [final EXCEPT ![p] = [i \in 1..NTargets |-> "none"]]
  /\ backoffs' = [backoffs EXCEPT ![p] = [i \in 1..NTargets |-> <<>>]]
  /\ recovery_invoked' = [recovery_invoked EXCEPT ![p] = FALSE]
  /\ run_log' = [run_log EXCEPT ![p] = <<>>]
  /\ rec_result' = [rec_result EXCEPT ![p] = "none"]
  /\ notified' = [notified EXCEPT ![p] = <<>>]
  /\ pc' = [pc EXCEPT ![p] = "for_target"]
  /\ UNCHANGED <<config, ncalls, main_state, gui_state, statics, result, running>>

\* monitor/mod.rs:74, 124-128.  The loop condition fails: the flag is cleared
\* and the call returns Ok(()).
LoopExit(p) ==
  /\ pc[p] = "loop_head"
  /\ ~running[p]
  /\ MONITORING_ACTIVE' = FALSE
  /\ Return(p, "Ok")
  /\ DropLocals(p)
  /\ UNCHANGED <<config, ncalls, main_state, gui_state, LOGGER_INIT, logger, handler_installed, handler_flag,
                 running>>

\* Mutant of NextTarget: a target with a retry count of 0 is skipped as if it
\* had answered.
NextTarget_ZeroBudgetOk(p) ==
  /\ pc[p] = "for_target"
  /\ IF target[p] < NTargets
       THEN LET t == target[p] + 1
                n == get_target_retry_count(config, config.targets[t])
            IN /\ target' = [target EXCEPT ![p] = t]
               /\ retry_count' = [retry_count EXCEPT ![p] = n]
               /\ IF n >= 1
                    THEN /\ attempt' = [attempt EXCEPT ![p] = 1]
                         /\ success' = [success EXCEPT ![p] = FALSE]
                         /\ pc' = [pc EXCEPT ![p] = "ping"]
                         /\ UNCHANGED <<final, all_targets_failed>>
                    ELSE /\ attempt' = [attempt EXCEPT ![p] = 0]
                         /\ success' = [success EXCEPT ![p] = TRUE]
                         /\ all_targets_failed' = [all_targets_failed EXCEPT ![p] = FALSE]
                         /\ final' = [final EXCEPT ![p][t] = "ok"]
                         /\ UNCHANGED pc
       ELSE /\ pc' = [pc EXCEPT ![p] = "decide"]
            /\ UNCHANGED <<target, retry_count, success, attempt, final, all_targets_failed>>
  /\ UNCHANGED <<config, ncalls, main_state, gui_state, statics, result, running, action,
                 outcomes, logged, backoffs, recovery_invoked>>
  /\ UNCHANGED rec_obs

\* monitor/mod.rs:78-83.  The for loop takes the next target, or ends.  With a
\* retry count of 0 the range 1..=0 is empty and the target's body is over at
\* once, success still false.
NextTarget(p) ==
  /\ pc[p] = "for_target"
  /\ IF target[p] < NTargets
       THEN LET t == target[p] + 1
                n == get_target_retry_count(config, config.targets[t])
            IN /\ target' = [target EXCEPT ![p] = t]
               /\ retry_count' = [retry_count EXCEPT ![p] = n]
               /\ success' = [success EXCEPT ![p] = FALSE]
               /\ IF n >= 1
                    THEN /\ attempt' = [attempt EXCEPT ![p] = 1]
                         /\ pc' = [pc EXCEPT ![p] = "ping"]
                         /\ UNCHANGED final
                    ELSE /\ attempt' = [attempt EXCEPT ![p] = 0]
                         /\ final' = [final EXCEPT ![p][t] = "failed"]
                         /\ UNCHANGED pc
       ELSE /\ pc' = [pc EXCEPT ![p] = "decide"]
            /\ UNCHANGED <<target, retry_count, success, attempt, final>>
  /\ UNCHANGED <<config, ncalls, main_state, gui_state, statics, result, running, action, all_targets_failed,
                 outcomes, logged, backoffs, recovery_invoked>>
  /\ UNCHANGED rec_obs

\* monitor/mod.rs:84-95, 109-111.  The ping of this attempt succeeds: one log
\* line, success = true, break; then all_targets_failed = false.
PingOk(p) ==
  /\ pc[p] = "ping"
  /\ outcomes' = [outcomes EXCEPT ![p][target[p]] = Append(@, "Ok")]
  /\ logged' = [logged EXCEPT ![p][target[p]] = @ + 1]
  /\ success' = [success EXCEPT ![p] = TRUE]
  /\ all_targets_failed' = [all_targets_failed EXCEPT ![p] = FALSE]
  /\ final' = [final EXCEPT ![p][target[p]] = "ok"]
  /\ pc' = [pc EXCEPT ![p] = "for_target"]
  /\ UNCHANGED <<config, ncalls, main_state, gui_state, statics, result, running, action, target, retry_count,
                 attempt, backoffs, recovery_invoked>>
  /\ UNCHANGED rec_obs

\* Mutant of PingErr: the retry range excludes its upper end
\* (1..retry_count in place of 1..=retry_count).
PingErr_ExclusiveRange(p) ==
  /\ pc[p] = "ping"
  /\ outcomes' = [outcomes EXCEPT ![p][target[p]] = Append(@, "Err")]
  /\ logged' = [logged EXCEPT ![p][target[p]] = @ + 1]
  /\ IF attempt[p] + 1 >= retry_count[p]
       THEN /\ final' = [final EXCEPT ![p][target[p]] = "failed"]
            /\ pc' = [pc EXCEPT ![p] = "for_target"]
            /\ UNCHANGED backoffs
       ELSE /\ backoffs' = [backoffs EXCEPT ![p][target[p]] = Append(@, attempt[p])]
            /\ pc' = [pc EXCEPT ![p] = "backoff"]
            /\ UNCHANGED final
  /\ UNCHANGED <<config, ncalls, main_state, gui_state, statics, result, running, action, target, retry_count,
                 attempt, success, all_targets_failed, recovery_invoked>>
  /\ UNCHANGED rec_obs

\* Mutant of PingErr: the 500 ms backoff is also taken after the last attempt.
PingErr_AlwaysBackoff(p) ==
  /\ pc[p] = "ping"
  /\ outcomes' = [outcomes EXCEPT ![p][target[p]] = Append(@, "Err")]
  /\ logged' = [logged EXCEPT ![p][target[p]] = @ + 1]
  /\ backoffs' = [backoffs EXCEPT ![p][target[p]] = Append(@, attempt[p])]
  /\ IF attempt[p] = retry_count[p]
       THEN /\ final' = [final EXCEPT ![p][target[p]] = "failed"]
            /\ pc' = [pc EXCEPT ![p] = "for_target"]
       ELSE /\ pc' = [pc EXCEPT ![p] = "backoff"]
            /\ UNCHANGED final
  /\ UNCHANGED <<config, ncalls, main_state, gui_state, statics, result, running, action, target, retry_count,
                 attempt, success, all_targets_failed, recovery_invoked>>
  /\ UNCHANGED rec_obs

\* monitor/mod.rs:84, 96-105, 109-111.  The ping of this attempt fails: one
\* log line; on the last attempt the retry loop ends with success false,
\* otherwise the call sleeps 500 ms before the next attempt.
PingErr(p) ==
  /\ pc[p] = "ping"
  /\ outcomes' = [outcomes EXCEPT ![p][target[p]] = Append(@, "Err")]
  /\ logged' = [logged EXCEPT ![p][target[p]] = @ + 1]
  /\ IF attempt[p] = retry_count[p]
       THEN /\ final' = [final EXCEPT ![p][target[p]] = "failed"]
            /\ pc' = [pc EXCEPT ![p] = "for_target"]
            /\ UNCHANGED backoffs
       ELSE /\ backoffs' = [backoffs EXCEPT ![p][target[p]] = Append(@, attempt[p])]
            /\ pc' = [pc EXCEPT ![p] = "backoff"]
            /\ UNCHANGED final
  /\ UNCHANGED <<config, ncalls, main_state, gui_state, statics, result, running, action, target, retry_count,
                 attempt, success, all_targets_failed, recovery_invoked>>
  /\ UNCHANGED rec_obs

\* monitor/mod.rs:103, 83.  The backoff sleep is over: the next attempt.
Backoff(p) ==
  /\ pc[p] = "backoff"
  /\ attempt' = [attempt EXCEPT ![p] = @ + 1]
  /\ pc' = [pc EXCEPT ![p] = "ping"]
  /\ UNCHANGED <<config, ncalls, main_state, gui_state, statics, result, running, action, target, retry_count,
                 success, all_targets_failed>>
  /\ UNCHANGED <<cycle_obs, rec_obs>>

\* Mutant of Decide: recovery starts when some target failed, not only when
\* all of them did.
Decide_AnyFailed(p) ==
  /\ pc[p] = "decide"
  /\ IF (\E t \in 1..NTargets : final[p][t] = "failed") /\ config.recovery_actions # <<>>
       THEN /\ recovery_invoked' = [recovery_invoked EXCEPT ![p] = TRUE]
            /\ action' = [action EXCEPT ![p] = 0]
            /\ pc' = [pc EXCEPT ![p] = "rec_for"]
       ELSE /\ pc' = [pc EXCEPT ![p] = "sleep"]
            /\ UNCHANGED <<recovery_invoked, action>>
  /\ UNCHANGED <<config, ncalls, main_state, gui_state, statics, result, running, outcomes, logged, final,
                 backoffs>>
  /\ UNCHANGED <<cycle_locals, rec_obs>>

\* Mutant of Decide: without a target there is nothing that failed, and no
\* recovery.
Decide_NeedsTargets(p) ==
  /\ pc[p] = "decide"
  /\ IF all_targets_failed[p] /\ config.targets # <<>> /\ config.recovery_actions # <<>>
       THEN /\ recovery_invoked' = [recovery_invoked EXCEPT ![p] = TRUE]
            /\ action' = [action EXCEPT ![p] = 0]
            /\ pc' = [pc EXCEPT ![p] = "rec_for"]
       ELSE /\ pc' = [pc EXCEPT ![p] = "sleep"]
            /\ UNCHANGED <<recovery_invoked, action>>
  /\ UNCHANGED <<config, ncalls, main_state, gui_state, statics, result, running, outcomes, logged, final,
                 backoffs>>
  /\ UNCHANGED <<cycle_locals, rec_obs>>

\* monitor/mod.rs:115-118.  The aggregate decision of the cycle.
Decide(p) ==
  /\ pc[p] = "decide"
  /\ IF all_targets_failed[p] /\ config.recovery_actions # <<>>
       THEN /\ recovery_invoked' = [recovery_invoked EXCEPT ![p] = TRUE]
            /\ action' = [action EXCEPT ![p] = 0]
            /\ pc' = [pc EXCEPT ![p] = "rec_for"]
       ELSE /\ pc' = [pc EXCEPT ![p] = "sleep"]
            /\ UNCHANGED <<recovery_invoked, action>>
  /\ UNCHANGED <<config, ncalls, main_state, gui_state, statics, result, running, outcomes, logged, final,
                 backoffs>>
  /\ UNCHANGED <<cycle_locals, rec_obs>>

\* monitor/mod.rs:121.  The cadence sleep is over: back to the loop condition.
Sleep(p) ==
  /\ pc[p] = "sleep"
  /\ pc' = [pc EXCEPT ![p] = "loop_head"]
  /\ UNCHANGED <<config, ncalls, main_state, gui_state, statics, result, running, action>>
  /\ UNCHANGED <<cycle_locals, cycle_obs, rec_obs>>


\* ----------------------------------------------- perform_recovery_actions
\* network/mod.rs:12-25.  The probe ping_host makes: an echo request to host
\* from a Pinger that is never given timeout_duration, so the caller's timeout
\* is not applied to the probe (timeout None).
ping_host(host, timeout_duration) == [host |-> host, timeout |-> None]

\* monitor/mod.rs:175-181.  The probe of check_recovery_success.
check_recovery_success == ping_host(config.default_target, Some(config.ping_timeout_ms))

LastRun(p) == run_log[p][Len(run_log[p])]
SetLastRun(p, r) == run_log' = [run_log EXCEPT ![p][Len(run_log[p])] = r]

\* Mutant of RecNextAction: a plan that ends without a verified recovery is
\* reported as an error.
RecNextAction_ExhaustedErr(p) ==
  /\ pc[p] = "rec_for"
  /\ IF action[p] < NActions
       THEN /\ action' = [action EXCEPT ![p] = @ + 1]
            /\ run_log' = [run_log EXCEPT ![p] =
                 Append(@, [action |-> action[p] + 1, cmd |-> "pending",
                            waited |-> FALSE, probes |-> <<>>, verify |-> "none"])]
            /\ pc' = [pc EXCEPT ![p] = "rec_exec"]
            /\ UNCHANGED rec_result
       ELSE /\ rec_result' = [rec_result EXCEPT ![p] = "Err"]
            /\ pc' = [pc EXCEPT ![p] = "rec_return"]
            /\ UNCHANGED <<action, run_log>>
  /\ UNCHANGED <<config, ncalls, main_state, gui_state, statics, result, running, notified>>
  /\ UNCHANGED <<cycle_locals, cycle_obs>>

\* monitor/mod.rs:133-136, 170-171.  The for loop takes the next action and
\* starts its command, or ends: "all recovery actions failed", Ok(()).
RecNextAction(p) ==
  /\ pc[p] = "rec_for"
  /\ IF action[p] < NActions
       THEN /\ action' = [action EXCEPT ![p] = @ + 1]
            /\ run_log' = [run_log EXCEPT ![p] =
                 Append(@, [action |-> action[p] + 1, cmd |-> "pending",
                            waited |-> FALSE, probes |-> <<>>, verify |-> "none"])]
            /\ pc' = [pc EXCEPT ![p] = "rec_exec"]
            /\ UNCHANGED rec_result
       ELSE /\ rec_result' = [rec_result EXCEPT ![p] = "Ok"]
            /\ pc' = [pc EXCEPT ![p] = "rec_return"]
            /\ UNCHANGED <<action, run_log>>
  /\ UNCHANGED <<config, ncalls, main_state, gui_state, statics, result, running, notified>>
  /\ UNCHANGED <<cycle_locals, cycle_obs>>

\* monitor/mod.rs:136-145.  The command succeeded; the post-wait starts when
\* the action declares one, else the verification probe is next.
RecExecOk(p) ==
  /\ pc[p] = "rec_exec"
  /\ SetLastRun(p, [LastRun(p) EXCEPT !.cmd = "ok"])
  /\ pc' = [pc EXCEPT ![p] =
       IF config.recovery_actions[action[p]].wait_after_ms # None
         THEN "rec_wait" ELSE "rec_verify"]
  /\ UNCHANGED <<config, ncalls, main_state, gui_state, statics, result, running, action, rec_result, notified>>
  /\ UNCHANGED <<cycle_locals, cycle_obs>>

\* Mutant of RecExecErr: the failure of the command is returned with `?`.
RecExecErr_Propagate(p) ==
  /\ pc[p] = "rec_exec"
  /\ SetLastRun(p, [LastRun(p) EXCEPT !.cmd = "failed"])
  /\ rec_result' = [rec_result EXCEPT ![p] = "Err"]
  /\ pc' = [pc EXCEPT ![p] = "rec_return"]
  /\ UNCHANGED <<config, ncalls, main_state, gui_state, statics, result, running, action, notified>>
  /\ UNCHANGED <<cycle_locals, cycle_obs>>

\* monitor/mod.rs:136, 164-167.  The command failed: the error is logged and
\* the match arm ends, so the for loop goes on with the next action.
RecExecErr(p) ==
  /\ pc[p] = "rec_exec"
  /\ SetLastRun(p, [LastRun(p) EXCEPT !.cmd = "failed"])
  /\ pc' = [pc EXCEPT ![p] = "rec_for"]
  /\ UNCHANGED <<config, ncalls, main_state, gui_state, statics, result, running, action, rec_result, notified>>
  /\ UNCHANGED <<cycle_locals, cycle_obs>>

\* monitor/mod.rs:141-144.  The post-action wait is over.
RecWait(p) ==
  /\ pc[p] = "rec_wait"
  /\ SetLastRun(p, [LastRun(p) EXCEPT !.waited = TRUE])
  /\ pc' = [pc EXCEPT ![p] = "rec_verify"]
  /\ UNCHANGED <<config, ncalls, main_state, gui_state, statics, result, running, action, rec_result, notified>>
  /\ UNCHANGED <<cycle_locals, cycle_obs>>

\* Mutant of RecVerifyOk: the `return Ok(())` after a confirmed recovery is
\* missing, so the for loop goes on.
RecVerifyOk_NoReturn(p) ==
  /\ pc[p] = "rec_verify"
  /\ SetLastRun(p, [LastRun(p) EXCEPT !.probes = Append(@, check_recovery_success), !.verify = "ok"])
  /\ pc' = [pc EXCEPT ![p] = "rec_for"]
  /\ UNCHANGED <<config, ncalls, main_state, gui_state, statics, result, running, action, rec_result, notified>>
  /\ UNCHANGED <<cycle_locals, cycle_obs>>

\* monitor/mod.rs:147-161, 175-181.  check_recovery_success pings the default
\* target and it answers: recovery is confirmed.  The notification command is
\* run when enabled and configured; then perform_recovery_actions returns
\* Ok(()).
RecVerifyOk(p) ==
  /\ pc[p] = "rec_verify"
  /\ SetLastRun(p, [LastRun(p) EXCEPT !.probes = Append(@, check_recovery_success), !.verify = "ok"])
  /\ IF config.notification_enabled /\ config.notification_command # None
       THEN /\ pc' = [pc EXCEPT ![p] = "rec_notify"]
            /\ UNCHANGED rec_result
       ELSE /\ rec_result' = [rec_result EXCEPT ![p] = "Ok"]
            /\ pc' = [pc EXCEPT ![p] = "rec_return"]
  /\ UNCHANGED <<config, ncalls, main_state, gui_state, statics, result, running, action, notified>>
  /\ UNCHANGED <<cycle_locals, cycle_obs>>

\* monitor/mod.rs:147-148, 162-163, 175-181.  The default target does not
\* answer: the for loop goes on with the next action.
RecVerifyErr(p) ==
  /\ pc[p] = "rec_verify"
  /\ SetLastRun(p, [LastRun(p) EXCEPT !.probes = Append(@, check_recovery_success), !.verify = "failed"])
  /\ pc' = [pc EXCEPT ![p] = "rec_for"]
  /\ UNCHANGED <<config, ncalls, main_state, gui_state, statics, result, running, action, rec_result, notified>>
  /\ UNCHANGED <<cycle_locals, cycle_obs>>

\* Mutant of RecNotify: a failed notification command makes the run fail.
RecNotify_PropagateErr(p) ==
  /\ pc[p] = "rec_notify"
  /\ \E sent \in BOOLEAN :
       /\ notified' = [notified EXCEPT ![p] = Append(@, IF sent THEN "Ok" ELSE "Err")]
       /\ rec_result' = [rec_result EXCEPT ![p] = IF sent THEN "Ok" ELSE "Err"]
  /\ pc' = [pc EXCEPT ![p] = "rec_return"]
  /\ UNCHANGED <<config, ncalls, main_state, gui_state, statics, result, running, action, run_log>>
  /\ UNCHANGED <<cycle_locals, cycle_obs>>

\* monitor/mod.rs:154-161.  The notification command has run; whatever its
\* outcome, it is only logged and the run returns Ok(()).
RecNotify(p) ==
  /\ pc[p] = "rec_notify"
  /\ \E sent \in BOOLEAN :
       /\ notified' = [notified EXCEPT ![p] = Append(@, IF sent THEN "Ok" ELSE "Err")]
       /\ rec_result' = [rec_result EXCEPT ![p] = "Ok"]
  /\ pc' = [pc EXCEPT ![p] = "rec_return"]
  /\ UNCHANGED <<config, ncalls, main_state, gui_state, statics, result, running, action, run_log>>
  /\ UNCHANGED <<cycle_locals, cycle_obs>>

\* monitor/mod.rs:117.  `perform_recovery_actions(&config).await?`: an Err
\* would be returned from start_monitoring as it is, an Ok goes on to the
\* cadence sleep.
RecReturn(p) ==
  /\ pc[p] = "rec_return"
  /\ IF rec_result[p] = "Err"
       THEN Return(p, "Err")
       ELSE /\ pc' = [pc EXCEPT ![p] = "sleep"]
            /\ UNCHANGED result
  /\ UNCHANGED <<config, ncalls, main_state, gui_state, statics, running, action>>
  /\ UNCHANGED <<cycle_locals, cycle_obs, rec_obs>>

\* ------------------------------------------------------------ service stop
\* service/mod.rs:202-211.  service_main aborts the spawned monitoring task on
\* Stop: the future is dropped at the .await it is suspended at, and no code
\* of start_monitoring runs after that.
Abort(p) ==
  /\ pc[p] \in YieldPoints
  /\ pc' = [pc EXCEPT ![p] = "aborted"]
  /\ DropLocals(p)
  /\ UNCHANGED <<config, ncalls, main_state, gui_state, statics, result, running>>

\* ------------------------------------------------------ main, foreground
calls_state == <<pc, result, running, action, cycle_locals, cycle_obs, rec_obs>>

\* utils/mod.rs:55-79.  The Once runs the initialisation at most once per
\* process; Ok(()) is returned in every case.
setup_console_logger ==
  /\ LOGGER_INIT' = TRUE
  /\ logger' = IF LOGGER_INIT THEN logger ELSE "console"

\* main.rs:57-62.  main registers the process's Ctrl+C handler, whose closure
\* sends on the channel tx; it sets no flag of any start_monitoring call.
MainSetHandler ==
  /\ main_pc = "set_handler"
  /\ ~handler_installed
  /\ handler_installed' = TRUE
  /\ handler_flag' = 0
  /\ main_pc' = "setup_logger"
  /\ UNCHANGED <<config, ncalls, MONITORING_ACTIVE, LOGGER_INIT, logger, rx, exit_code>>
  /\ UNCHANGED <<calls_state, gui_state, status_state, file_state, svc_log>>

\* main.rs:72-81.  Without the service subcommand the console logger is set up.
MainSetupLogger ==
  /\ main_pc = "setup_logger"
  /\ setup_console_logger
  /\ main_pc' = "spawn"
  /\ UNCHANGED <<config, ncalls, MONITORING_ACTIVE, handler_installed, handler_flag,
                 rx, exit_code>>
  /\ UNCHANGED <<calls_state, gui_state, status_state, file_state, svc_log>>

\* main.rs:83-91, 162-165.  The configuration loads and the None branch spawns
\* start_monitoring(config) as a task of the runtime.
MainSpawn ==
  /\ main_pc = "spawn"
  /\ ncalls' = 1
  /\ main_pc' = "recv"
  /\ UNCHANGED <<config, statics, rx, exit_code>>
  /\ UNCHANGED <<calls_state, gui_state, status_state, file_state, svc_log>>

\* main.rs:58-61.  Ctrl+C is pressed: the registered handler, main's, sends a
\* message on the channel.
Interrupt ==
  /\ main_pc \in {"setup_logger", "spawn", "recv", "join"}
  /\ handler_installed /\ handler_flag = 0
  /\ rx < MaxSignals
  /\ rx' = rx + 1
  /\ UNCHANGED <<config, ncalls, statics, main_pc, exit_code>>
  /\ UNCHANGED <<calls_state, gui_state, status_state, file_state, svc_log>>

\* main.rs:167-169.  main blocks in rx.recv() until a Ctrl+C message is there;
\* it does not look at the spawned task while it waits.
MainRecv ==
  /\ main_pc = "recv"
  /\ rx > 0
  /\ rx' = rx - 1
  /\ main_pc' = "join"
  /\ UNCHANGED <<config, ncalls, statics, exit_code>>
  /\ UNCHANGED <<calls_state, gui_state, status_state, file_state, svc_log>>

\* Mutant of MainJoin: the JoinHandle is awaited without the 5 s timeout.
MainJoin_NoTimeout ==
  /\ main_pc = "join"
  /\ pc[1] = "returned"
  /\ main_pc' = "exited"
  /\ exit_code' = Some(0)
  /\ UNCHANGED calls_state
  /\ UNCHANGED <<config, ncalls, statics, rx, gui_state, status_state, file_state, svc_log>>

\* main.rs:171-180.  main waits for the task for at most 5 s and only logs
\* which of the two happened: the task's own Result is dropped with the `_`
\* pattern, main returns Ok(()) and the process exits with code 0, which ends
\* a task that has not finished wherever it is.
MainJoin ==
  /\ main_pc = "join"
  /\ main_pc' = "exited"
  /\ exit_code' = Some(0)
  /\ IF pc[1] = "returned"
       THEN UNCHANGED calls_state
       ELSE /\ pc' = [pc EXCEPT ![1] = "aborted"]
            /\ DropLocals(1)
            /\ UNCHANGED <<result, running>>
  /\ UNCHANGED <<config, ncalls, statics, rx, gui_state, status_state, file_state, svc_log>>

\* ------------------------------------------------------------ service_main
\* The positions of service_main ("service_returned": it has returned).
ServicePcs == {"service_main", "service_load", "service_spawn", "service_recv",
               "service_abort", "service_stopped", "service_returned"}

\* ServiceExitCode::Win32(n) and ServiceExitCode::ServiceSpecific(n).
Win32(n) == <<"Win32", n>>
ServiceSpecific(n) == <<"ServiceSpecific", n>>

\* An entry of svc_log that is not a status report: the spawn of the
\* monitoring task, the Stop control sent by the OS, the abort of the task.
ServiceStep(ev) ==
  [ev |-> ev, current_state |-> "none", controls_accepted |-> {}, exit_code |-> <<"none", 0>>]

\* service/mod.rs:133-145, 161-173, 180-192, 214-226.  The status passed to
\* status_handle.set_service_status reaches the OS.
set_service_status(state, controls, code) ==
  svc_log' = Append(svc_log, [ev |-> "status", current_state |-> state,
                              controls_accepted |-> controls, exit_code |-> code])

\* The statuses reported so far, each as <<current_state, exit_code>>.
Reported ==
  LET st == SelectSeq(svc_log, LAMBDA e : e.ev = "status")
  IN [i \in 1..Len(st) |-> <<st[i].current_state, st[i].exit_code>>]

\* The controls that the OS may send: those of the last reported status.
ControlsAccepted ==
  LET st == SelectSeq(svc_log, LAMBDA e : e.ev = "status")
  IN IF st = <<>> THEN {} ELSE st[Len(st)].controls_accepted

\* service/mod.rs:107-145.  service_main creates the shutdown channel,
\* registers the control handler and reports StartPending, accepting no
\* control.
ServiceStart ==
  /\ main_pc = "service_main"
  /\ set_service_status("StartPending", {}, Win32(0))
  /\ main_pc' = "service_load"
  /\ UNCHANGED <<config, ncalls, statics, rx, exit_code>>
  /\ UNCHANGED <<calls_state, gui_state, status_state, file_state>>

\* Mutant of ServiceLoadConfig: the failure branch lacks its return.
ServiceLoadConfig_NoReturn ==
  /\ main_pc = "service_load"
  /\ \E loaded \in BOOLEAN :
       IF loaded
         THEN set_service_status("Running", {"STOP"}, Win32(0))
         ELSE set_service_status("Stopped", {}, ServiceSpecific(1))
  /\ main_pc' = "service_spawn"
  /\ UNCHANGED <<config, ncalls, statics, rx, exit_code>>
  /\ UNCHANGED <<calls_state, gui_state, status_state, file_state>>

\* service/mod.rs:148-192.  The configuration is loaded from the path of the
\* service's start arguments.  When that fails, Stopped is reported with the
\* service-specific exit code 1 and service_main returns; else Running is
\* reported, from which on the Stop control is accepted.
ServiceLoadConfig ==
  /\ main_pc = "service_load"
  /\ \E loaded \in BOOLEAN :
       IF loaded
         THEN /\ set_service_status("Running", {"STOP"}, Win32(0))
              /\ main_pc' = "service_spawn"
         ELSE /\ set_service_status("Stopped", {}, ServiceSpecific(1))
              /\ main_pc' = "service_returned"
  /\ UNCHANGED <<config, ncalls, statics, rx, exit_code>>
  /\ UNCHANGED <<calls_state, gui_state, status_state, file_state>>

\* service/mod.rs:195-200.  A runtime is created and start_monitoring(config)
\* is spawned on it as a task.
ServiceSpawn ==
  /\ main_pc = "service_spawn"
  /\ ncalls' = 1
  /\ svc_log' = Append(svc_log, ServiceStep("spawn"))
  /\ main_pc' = "service_recv"
  /\ UNCHANGED <<config, statics, rx, exit_code>>
  /\ UNCHANGED <<calls_state, gui_state, status_state, file_state>>

\* service/mod.rs:111-124.  The OS sends the Stop control, which it does only
\* while the service accepts it; the event handler sends on shutdown_tx.
ServiceControlStop ==
  /\ main_pc \in ServicePcs \ {"service_returned"}
  /\ "STOP" \in ControlsAccepted
  /\ rx < MaxSignals
  /\ rx' = rx + 1
  /\ svc_log' = Append(svc_log, ServiceStep("stop"))
  /\ UNCHANGED <<config, ncalls, statics, main_pc, exit_code>>
  /\ UNCHANGED <<calls_state, gui_state, status_state, file_state>>

\* service/mod.rs:203-205.  service_main blocks in shutdown_rx.recv() until
\* the handler has sent.
ServiceRecv ==
  /\ main_pc = "service_recv"
  /\ rx > 0
  /\ rx' = rx - 1
  /\ main_pc' = "service_abort"
  /\ UNCHANGED <<config, ncalls, statics, exit_code, svc_log>>
  /\ UNCHANGED <<calls_state, gui_state, status_state, file_state>>

\* service/mod.rs:208-211.  monitoring_handle.abort(): a task that has not
\* run yet or that is suspended at an .await is dropped there; a task that
\* has returned is left as it is, and one that is running goes on to its
\* next .await or to its return.
ServiceAbort ==
  /\ main_pc = "service_abort"
  /\ svc_log' = Append(svc_log, ServiceStep("abort"))
  /\ main_pc' = "service_stopped"
  /\ IF pc[1] \in YieldPoints \cup {"call"}
       THEN /\ pc' = [pc EXCEPT ![1] = "aborted"]
            /\ DropLocals(1)
            /\ UNCHANGED <<result, running>>
       ELSE UNCHANGED calls_state
  /\ UNCHANGED <<config, ncalls, statics, rx, exit_code>>
  /\ UNCHANGED <<gui_state, status_state, file_state>>

\* service/mod.rs:214-227.  Stopped is reported with exit code 0 and
\* service_main returns.
ServiceStopped ==
  /\ main_pc = "service_stopped"
  /\ set_service_status("Stopped", {}, Win32(0))
  /\ main_pc' = "service_returned"
  /\ UNCHANGED <<config, ncalls, statics, rx, exit_code>>
  /\ UNCHANGED <<calls_state, gui_state, status_state, file_state>>

\* ----------------------------------------------------------- check_status
\* monitor/mod.rs:41-43; main.rs:132-139, 180.  check_status leaves its for
\* loop and returns Ok(()); main matches Ok and returns Ok(()) in its turn.
StatusReturn ==
  /\ cs_pc' = "returned"
  /\ cs_target' = 0
  /\ cs_result' = Some("Ok")
  /\ main_pc' = "exited"
  /\ exit_code' = Some(0)

\* monitor/mod.rs:17, 41-43.  The for loop of check_status goes to target k,
\* or is over when there is none.
StatusGoto(k) ==
  IF k <= NTargets
    THEN /\ cs_pc' = "ping"
         /\ cs_target' = k
         /\ UNCHANGED <<cs_result, main_pc, exit_code>>
    ELSE StatusReturn

\* main.rs:130-132; monitor/mod.rs:14-17.  main calls check_status, which
\* starts its for loop over config.targets.
check_status ==
  /\ main_pc = "status"
  /\ cs_pc = "none"
  /\ StatusGoto(1)
  /\ UNCHANGED <<config, ncalls, statics, rx, cs_checks>>
  /\ UNCHANGED <<calls_state, gui_state, file_state, svc_log>>

\* The ping of the status pass as it would be with a second attempt after a
\* failure.
StatusPing_Retry ==
  /\ cs_pc = "ping"
  /\ \E ok \in BOOLEAN :
       /\ cs_checks' = Append(cs_checks, [kind |-> "ping", target |-> cs_target, ok |-> ok])
       /\ IF ~ok /\ (cs_checks = <<>> \/ cs_checks[Len(cs_checks)].target # cs_target)
            THEN UNCHANGED <<cs_pc, cs_target, cs_result, main_pc, exit_code>>
            ELSE IF config.targets[cs_target].port # None
                   THEN /\ cs_pc' = "port"
                        /\ UNCHANGED <<cs_target, cs_result, main_pc, exit_code>>
                   ELSE StatusGoto(cs_target + 1)
  /\ UNCHANGED <<config, ncalls, statics, rx>>
  /\ UNCHANGED <<calls_state, gui_state, file_state, svc_log>>

\* monitor/mod.rs:18-30.  The ping of the current target has ended, with
\* success or not, and its result is logged; the port check follows when the
\* target declares a port, else the next target.
StatusPing ==
  /\ cs_pc = "ping"
  /\ \E ok \in BOOLEAN :
       cs_checks' = Append(cs_checks, [kind |-> "ping", target |-> cs_target, ok |-> ok])
  /\ IF config.targets[cs_target].port # None
       THEN /\ cs_pc' = "port"
            /\ UNCHANGED <<cs_target, cs_result, main_pc, exit_code>>
       ELSE StatusGoto(cs_target + 1)
  /\ UNCHANGED <<config, ncalls, statics, rx>>
  /\ UNCHANGED <<calls_state, gui_state, file_state, svc_log>>

\* monitor/mod.rs:30-40.  The port check of the current target has ended,
\* with success or not, and its result is logged; the next target follows.
StatusPort ==
  /\ cs_pc = "port"
  /\ \E ok \in BOOLEAN :
       cs_checks' = Append(cs_checks, [kind |-> "port", target |-> cs_target, ok |-> ok])
  /\ StatusGoto(cs_target + 1)
  /\ UNCHANGED <<config, ncalls, statics, rx>>
  /\ UNCHANGED <<calls_state, gui_state, file_state, svc_log>>

\* ------------------------------------------------- load_config, save_config
\* load_config as it would be if it returned the default configuration of an
\* absent path without writing it.
load_config_NoWrite ==
  /\ main_pc = "load_config"
  /\ cf_loads < MaxLoads
  /\ cf_loads' = cf_loads + 1
  /\ IF cf_file = None
       THEN /\ cf_written' = Some(Config_default)
            /\ cf_last' = Some(Ok(Config_default))
            /\ config' = Config_default
            /\ UNCHANGED cf_file
       ELSE /\ cf_last' = Some(from_str(cf_file[1]))
            /\ config' = IF from_str(cf_file[1]).ok THEN from_str(cf_file[1]).value ELSE config
            /\ UNCHANGED <<cf_file, cf_written>>
  /\ UNCHANGED <<ncalls, statics, main_pc, rx, exit_code, status_state, svc_log>>
  /\ UNCHANGED <<calls_state, gui_state, svc_log>>

\* config/mod.rs:92-107.  load_config(path): when no file exists at the path
\* the default configuration is written there as TOML and returned; else the
\* file is read and parsed, and the configuration or the parse error returned.
load_config ==
  /\ main_pc = "load_config"
  /\ cf_loads < MaxLoads
  /\ cf_loads' = cf_loads + 1
  /\ IF cf_file = None
       THEN /\ cf_file' = Some(to_string_pretty(Config_default))
            /\ cf_written' = Some(Config_default)
            /\ cf_last' = Some(Ok(Config_default))
            /\ config' = Config_default
       ELSE /\ cf_last' = Some(from_str(cf_file[1]))
            /\ config' = IF from_str(cf_file[1]).ok THEN from_str(cf_file[1]).value ELSE config
            /\ UNCHANGED <<cf_file, cf_written>>
  /\ UNCHANGED <<ncalls, statics, main_pc, rx, exit_code, status_state, svc_log>>
  /\ UNCHANGED <<calls_state, gui_state, svc_log>>

\* config/mod.rs:109-114.  save_config(config, path): the configuration is
\* written to the path as TOML, over what the file held.
save_config ==
  /\ main_pc = "load_config"
  /\ \E c \in FileConfigs :
       /\ cf_file' = Some(to_string_pretty(c))
       /\ cf_written' = Some(c)
  /\ cf_last' = None
  /\ UNCHANGED <<config, ncalls, statics, main_pc, rx, exit_code, status_state, cf_loads>>
  /\ UNCHANGED <<calls_state, gui_state, svc_log>>

\* -------------------------------------------------------------- dashboard
process_state == <<ncalls, statics, calls_state, main_state>>
threads_state == <<nthreads, thread_pc, thread_target, thread_snapshot, thread_status>>
recovery_state == <<recovery_in_progress, recovery_promise, rt_pc, rt_action>>

\* gui/mod.rs:139-209.  Start (button or menu): nothing when monitoring_active
\* is set; else the flag is set and a new monitoring thread is spawned, which
\* begins by locking the configuration.
GuiStartMonitoring ==
  /\ main_pc = "gui"
  /\ ~monitoring_active
  /\ nthreads < MaxThreads
  /\ monitoring_active' = TRUE
  /\ nthreads' = nthreads + 1
  /\ thread_pc' = [thread_pc EXCEPT ![nthreads + 1] = "lock"]
  /\ UNCHANGED <<thread_target, thread_snapshot, thread_status, config_lock,
                 target_statuses, saves, config>>
  /\ UNCHANGED <<recovery_state, process_state>>

\* gui/mod.rs:212-221.  Stop: the flag is cleared; the thread is not told and
\* is not joined.
GuiStopMonitoring ==
  /\ main_pc = "gui"
  /\ monitoring_active
  /\ monitoring_active' = FALSE
  /\ UNCHANGED <<config, config_lock, target_statuses, saves>>
  /\ UNCHANGED <<threads_state, recovery_state, process_state>>

\* network/mod.rs:28-35.  The check check_port makes: a TCP connect to
\* host:port that is bounded by timeout_duration.
check_port(host, port, timeout_duration) ==
  [host |-> host, port |-> port, timeout |-> timeout_duration]

\* gui/mod.rs:158-161.  The target of its snapshot that thread t is at.
ThreadTarget(t) == thread_snapshot[t].targets[thread_target[t]]

\* gui/mod.rs:182-184, 189-192.  The check that thread t is making: both are
\* called with the global ping_timeout that the thread copied.
thread_check(t) ==
  IF thread_pc[t] = "port"
    THEN check_port(ThreadTarget(t).address, ThreadTarget(t).port,
                    Some(thread_snapshot[t].ping_timeout))
    ELSE ping_host(ThreadTarget(t).address, Some(thread_snapshot[t].ping_timeout))

\* gui/mod.rs:158-186.  Thread t begins target k of the list targets, with
\* the status map being statuses: it clones the status of that name, or makes
\* a new status and inserts it, and starts the ping.
ThreadBegin(t, targets, k, statuses) ==
  LET tg == targets[k]
      status == IF tg.name \in DOMAIN statuses
                  THEN statuses[tg.name] ELSE TargetStatus_new(tg)
  IN /\ thread_target' = [thread_target EXCEPT ![t] = k]
     /\ thread_pc' = [thread_pc EXCEPT ![t] = "ping"]
     /\ thread_status' = [thread_status EXCEPT ![t] = Some(status)]
     /\ target_statuses' = Insert(statuses, tg.name, status)

\* gui/mod.rs:197-205.  Thread t stores status under the name of its current
\* target and goes on: to the next target of its snapshot, or to the interval
\* sleep.
ThreadAdvance(t, status) ==
  LET stored == Insert(target_statuses, ThreadTarget(t).name, status)
  IN IF thread_target[t] < Len(thread_snapshot[t].targets)
       THEN ThreadBegin(t, thread_snapshot[t].targets, thread_target[t] + 1, stored)
       ELSE /\ thread_target' = [thread_target EXCEPT ![t] = 0]
            /\ thread_pc' = [thread_pc EXCEPT ![t] = "sleep"]
            /\ thread_status' = [thread_status EXCEPT ![t] = None]
            /\ target_statuses' = stored

\* gui/mod.rs:152-158.  The thread takes the configuration lock, copies the
\* interval, the global timeout and the targets, and drops the lock; the for
\* loop starts with the first target of the copy.
ThreadLock(t) ==
  /\ thread_pc[t] = "lock"
  /\ config_lock = "free"
  /\ thread_snapshot' = [thread_snapshot EXCEPT ![t] =
       [targets |-> config.targets, ping_timeout |-> config.ping_timeout_ms]]
  /\ IF config.targets # <<>>
       THEN ThreadBegin(t, config.targets, 1, target_statuses)
       ELSE /\ thread_target' = [thread_target EXCEPT ![t] = 0]
            /\ thread_pc' = [thread_pc EXCEPT ![t] = "sleep"]
            /\ UNCHANGED <<thread_status, target_statuses>>
  /\ UNCHANGED <<config, monitoring_active, nthreads, config_lock, saves>>
  /\ UNCHANGED <<recovery_state, process_state>>

\* gui/mod.rs:182-200.  The ping of the current target has ended and its
\* result is put in the thread's status; the port check follows when the
\* target declares a port, else the status is stored and the thread goes on.
ThreadPing(t) ==
  /\ thread_pc[t] = "ping"
  /\ \E r \in {"Ok", "Err"} :
       LET pinged == [thread_status[t][1] EXCEPT !.ping_result = Some(r)]
       IN IF ThreadTarget(t).port # None
            THEN /\ thread_pc' = [thread_pc EXCEPT ![t] = "port"]
                 /\ thread_status' = [thread_status EXCEPT ![t] = Some(pinged)]
                 /\ UNCHANGED <<thread_target, target_statuses>>
            ELSE ThreadAdvance(t, pinged)
  /\ UNCHANGED <<config, monitoring_active, nthreads, thread_snapshot, config_lock, saves>>
  /\ UNCHANGED <<recovery_state, process_state>>

\* gui/mod.rs:189-200.  The port check of the current target has ended; its
\* result is put in the thread's status, which is stored, and the thread goes
\* on.
ThreadPort(t) ==
  /\ thread_pc[t] = "port"
  /\ \E r \in {"Ok", "Err"} :
       ThreadAdvance(t, [thread_status[t][1] EXCEPT !.port_result = Some(r)])
  /\ UNCHANGED <<config, monitoring_active, nthreads, thread_snapshot, config_lock, saves>>
  /\ UNCHANGED <<recovery_state, process_state>>

\* gui/mod.rs:203-205, 152.  The interval sleep is over; the while loop locks
\* the configuration again.  monitoring_active is not read by the thread.
ThreadSleep(t) ==
  /\ thread_pc[t] = "sleep"
  /\ thread_pc' = [thread_pc EXCEPT ![t] = "lock"]
  /\ UNCHANGED <<config, monitoring_active, nthreads, thread_target, thread_snapshot,
                 thread_status, config_lock, target_statuses, saves>>
  /\ UNCHANGED <<recovery_state, process_state>>

\* Mutant of GuiPerformRecovery: the request does not look at
\* recovery_in_progress.
GuiPerformRecovery_NoCheck ==
  /\ main_pc = "gui"
  /\ recovery_in_progress' = TRUE
  /\ recovery_promise' = "pending"
  /\ rt_pc' = "lock"
  /\ UNCHANGED <<config, monitoring_active, config_lock, rt_action, target_statuses, saves>>
  /\ UNCHANGED <<threads_state, process_state>>

\* gui/mod.rs:224-236, 408-409, 491-492.  Run Recovery Actions: nothing when a
\* run is in progress; else the flag is set and the recovery thread is spawned
\* behind a promise.
GuiPerformRecovery ==
  /\ main_pc = "gui"
  /\ ~recovery_in_progress
  /\ recovery_in_progress' = TRUE
  /\ recovery_promise' = "pending"
  /\ rt_pc' = "lock"
  /\ UNCHANGED <<config, monitoring_active, config_lock, rt_action, target_statuses, saves>>
  /\ UNCHANGED <<threads_state, process_state>>

\* The recovery thread ends with result r: the promise is ready and the
\* configuration guard is dropped.
RecoveryThreadEnd(r) ==
  /\ recovery_promise' = r
  /\ rt_pc' = "none"
  /\ rt_action' = 0
  /\ config_lock' = "free"

\* gui/mod.rs:236-240, 277.  The recovery thread takes the configuration lock
\* and keeps the guard for the whole run; it starts with the first action, or
\* returns Ok(()) when the plan is empty.
RecoveryThreadLock ==
  /\ rt_pc = "lock"
  /\ config_lock = "free"
  /\ IF NActions = 0
       THEN RecoveryThreadEnd("Ok")
       ELSE /\ config_lock' = "recovery"
            /\ rt_action' = 1
            /\ rt_pc' = "exec"
            /\ UNCHANGED recovery_promise
  /\ UNCHANGED <<config, monitoring_active, recovery_in_progress, target_statuses, saves>>
  /\ UNCHANGED <<threads_state, process_state>>

\* The recovery thread goes on after an action: to the next one, or Ok(()).
RecoveryThreadAdvance ==
  IF rt_action < NActions
    THEN /\ rt_action' = rt_action + 1
         /\ rt_pc' = "exec"
         /\ UNCHANGED <<recovery_promise, config_lock>>
    ELSE RecoveryThreadEnd("Ok")

\* gui/mod.rs:240-274.  The command of the current action has run: on success
\* the post-wait starts when declared, else the next action comes; on failure
\* the thread returns Err at once.
RecoveryThreadExec ==
  /\ rt_pc = "exec"
  /\ \E ok \in BOOLEAN :
       IF ok
         THEN IF config.recovery_actions[rt_action].wait_after_ms # None
                THEN /\ rt_pc' = "wait"
                     /\ UNCHANGED <<rt_action, recovery_promise, config_lock>>
                ELSE RecoveryThreadAdvance
         ELSE RecoveryThreadEnd("Err")
  /\ UNCHANGED <<config, monitoring_active, recovery_in_progress, target_statuses, saves>>
  /\ UNCHANGED <<threads_state, process_state>>

\* gui/mod.rs:259-262.  The post-wait of the current action is over.
RecoveryThreadWait ==
  /\ rt_pc = "wait"
  /\ RecoveryThreadAdvance
  /\ UNCHANGED <<config, monitoring_active, recovery_in_progress, target_statuses, saves>>
  /\ UNCHANGED <<threads_state, process_state>>

\* gui/mod.rs:367-378.  A UI update finds the promise ready: the result is
\* logged, recovery_in_progress is cleared and the promise dropped.
GuiUpdate ==
  /\ main_pc = "gui"
  /\ recovery_promise \in {"Ok", "Err"}
  /\ recovery_in_progress' = FALSE
  /\ recovery_promise' = "none"
  /\ UNCHANGED <<config, monitoring_active, config_lock, rt_pc, rt_action,
                 target_statuses, saves>>
  /\ UNCHANGED <<threads_state, process_state>>

\* gui/mod.rs:311-320.  The status map after a replacement: the entries whose
\* name is not a target any more are dropped, the other entries are kept as
\* they are, and a new status is inserted for each target without an entry.
retain_and_insert(statuses, targets) ==
  [n \in Names(targets) |->
     IF n \in DOMAIN statuses
       THEN statuses[n]
       ELSE TargetStatus_new(CHOOSE tg \in {targets[i] : i \in 1..Len(targets)} : tg.name = n)]

\* Save as it would be if the configuration were replaced without taking the
\* configuration lock.
GuiSaveConfig_NoLock ==
  /\ main_pc = "gui"
  /\ saves < MaxSaves
  /\ \E new_config \in GuiConfigs :
       /\ config' = new_config
       /\ cf_file' = Some(to_string_pretty(new_config))
       /\ cf_written' = Some(new_config)
       /\ target_statuses' = retain_and_insert(target_statuses, new_config.targets)
  /\ saves' = saves + 1
  /\ UNCHANGED <<monitoring_active, config_lock, cf_last, cf_loads>>
  /\ UNCHANGED <<threads_state, recovery_state>>
  /\ UNCHANGED <<ncalls, statics, calls_state, main_pc, rx, exit_code, status_state, svc_log>>

\* gui/mod.rs:282-323.  Save in the settings editor, with a text that parses
\* and a file that can be written: the UI thread locks the configuration
\* (waiting for the lock to be free), replaces it by the new one, and then
\* brings the status map in line with the new targets.
GuiSaveConfig ==
  /\ main_pc = "gui"
  /\ saves < MaxSaves
  /\ config_lock = "free"
  /\ \E new_config \in GuiConfigs :
       /\ config' = new_config
       /\ cf_file' = Some(to_string_pretty(new_config))
       /\ cf_written' = Some(new_config)
       /\ target_statuses' = retain_and_insert(target_statuses, new_config.targets)
  /\ saves' = saves + 1
  /\ UNCHANGED <<monitoring_active, config_lock, cf_last, cf_loads>>
  /\ UNCHANGED <<threads_state, recovery_state>>
  /\ UNCHANGED <<ncalls, statics, calls_state, main_pc, rx, exit_code, status_state, svc_log>>

\* ------------------------------------------------------------------- Next
\* The steps of start_monitoring calls, of main, of check_status and of
\* load_config and save_config.
NextCli ==
  \/ \E p \in 1..ncalls : StartMonitoring(p)
  \/ \E p \in 1..ncalls : SetupLogger(p)
  \/ \E p \in 1..ncalls : SetHandler(p)
  \/ \E p \in 1..ncalls : CtrlC(p)
  \/ \E p \in 1..ncalls : LoopEnter(p)
  \/ \E p \in 1..ncalls : LoopExit(p)
  \/ \E p \in 1..ncalls : NextTarget(p)
  \/ \E p \in 1..ncalls : PingOk(p)
  \/ \E p \in 1..ncalls : PingErr(p)
  \/ \E p \in 1..ncalls : Backoff(p)
  \/ \E p \in 1..ncalls : Decide(p)
  \/ \E p \in 1..ncalls : Sleep(p)
  \/ \E p \in 1..ncalls : RecNextAction(p)
  \/ \E p \in 1..ncalls : RecExecOk(p)
  \/ \E p \in 1..ncalls : RecExecErr(p)
  \/ \E p \in 1..ncalls : RecWait(p)
  \/ \E p \in 1..ncalls : RecVerifyOk(p)
  \/ \E p \in 1..ncalls : RecVerifyErr(p)
  \/ \E p \in 1..ncalls : RecNotify(p)
  \/ \E p \in 1..ncalls : RecReturn(p)
  \/ \E p \in 1..ncalls : Abort(p)
  \/ MainSetHandler
  \/ MainSetupLogger
  \/ MainSpawn
  \/ Interrupt
  \/ MainRecv
  \/ MainJoin
  \/ ServiceStart
  \/ ServiceLoadConfig
  \/ ServiceSpawn
  \/ ServiceControlStop
  \/ ServiceRecv
  \/ ServiceAbort
  \/ ServiceStopped
  \/ check_status
  \/ StatusPing
  \/ StatusPort
  \/ load_config
  \/ save_config

\* The steps of the dashboard and of its threads.
NextGui ==
  \/ GuiStartMonitoring
  \/ GuiStopMonitoring
  \/ \E t \in 1..nthreads : ThreadLock(t)
  \/ \E t \in 1..nthreads : ThreadPing(t)
  \/ \E t \in 1..nthreads : ThreadPort(t)
  \/ \E t \in 1..nthreads : ThreadSleep(t)
  \/ GuiPerformRecovery
  \/ RecoveryThreadLock
  \/ RecoveryThreadExec
  \/ RecoveryThreadWait
  \/ GuiUpdate
  \/ GuiSaveConfig

Next == NextCli \/ NextGui

Spec == Init /\ [][Next]_vars

\* The program without the dashboard subcommand.  The dashboard's steps are
\* enabled only in the states that start from InitGui.
SpecCli == InitCli /\ [][NextCli]_vars


\* ================================================================ claims
RecoveryPcs == {"rec_for", "rec_exec", "rec_wait", "rec_verify", "rec_notify", "rec_return"}

\* Effective retry count of target t of the configuration.
N(t) == get_target_retry_count(config, config.targets[t])

AllErr(o) == \A k \in 1..Len(o) : o[k] = "Err"

\* C1: at most one start_monitoring call is past the guard check at any time,
\* and MONITORING_ACTIVE is true whenever a call is executing the body.
C1_OneActiveLoop ==
  /\ Cardinality({p \in Calls : InBody(p)}) <= 1
  /\ (\E p \in Calls : InBody(p)) => MONITORING_ACTIVE

\* A call is probing while another call has come and gone.
C1_Witness ==
  \E p, q \in Calls : p # q /\ pc[p] = "ping" /\ pc[q] = "returned"

\* C2: whenever start_monitoring returns after having set the guard, the
\* guard is false afterwards.
C2_GuardClearedOnEveryReturn ==
  [][\A p \in Calls : (InBody(p) /\ pc'[p] = "returned") => ~MONITORING_ACTIVE']_vars

\* C3: once the monitoring task has stopped on a shutdown request (its Ctrl+C
\* flag was cleared and it returned, or the service's Stop aborted it) and no
\* other call has been made, MONITORING_ACTIVE is false.
C3_GuardClearedAfterShutdown ==
  \A p \in Calls :
    ( /\ \/ pc[p] = "aborted"
         \/ pc[p] = "returned" /\ ~running[p]
      /\ \A q \in Calls \ {p} : pc[q] = "call" )
    => ~MONITORING_ACTIVE

\* C4: a start_monitoring call made while a loop is active returns an error
\* outcome.
C4_AlreadyRunningIsAnError ==
  [][\A p \in Calls :
       (pc[p] = "call" /\ MONITORING_ACTIVE /\ pc'[p] = "returned")
       => result'[p] = "Err"]_vars

\* C5: a start_monitoring call that finds the guard set changes nothing but
\* its own completion: no probe, no recovery action, no handler, no logger,
\* and MONITORING_ACTIVE stays true.
C5_RejectedCallIsNoOp ==
  [][\A p \in Calls :
       (pc[p] = "call" /\ MONITORING_ACTIVE /\ pc'[p] # "call")
       => /\ pc'[p] = "returned"
          /\ MONITORING_ACTIVE'
          /\ \A q \in Calls \ {p} : pc'[q] = pc[q] /\ result'[q] = result[q]
          /\ UNCHANGED <<config, LOGGER_INIT, logger, handler_installed, handler_flag,
                         running, action>>
          /\ UNCHANGED <<cycle_locals, cycle_obs, rec_obs>>]_vars

\* The first loop is in its cadence sleep, guard still set, after another
\* call was turned away.
C5_Witness ==
  \E p, q \in Calls :
    /\ p # q
    /\ pc[p] = "sleep"
    /\ pc[q] = "returned" /\ result[q] = "Ok"
    /\ MONITORING_ACTIVE

\* C6: in a cycle, for a target with retry count N >= 1, every attempt is
\* logged once and no attempt follows a success; when its retries are over,
\* either all N attempts failed and the target is failed, or the first success
\* is the last attempt k <= N and the target is successful.
C6_RetryBudget ==
  \A p \in Calls : \A t \in 1..Len(outcomes[p]) :
    LET o == outcomes[p][t] IN
    N(t) >= 1 =>
      /\ logged[p][t] = Len(o)
      /\ Len(o) <= N(t)
      /\ \A k \in 1..Len(o) : o[k] = "Ok" => k = Len(o)
      /\ final[p][t] = "failed" <=> (Len(o) = N(t) /\ AllErr(o))
      /\ final[p][t] = "ok" <=> (o # <<>> /\ o[Len(o)] = "Ok")
      /\ (t < target[p] \/ pc[p] \notin {"for_target", "ping", "backoff"})
           => final[p][t] # "none"

\* One target used up its two attempts, another succeeded on its second.
C6_Witness ==
  \E p \in Calls : \E t, u \in 1..Len(outcomes[p]) :
    /\ outcomes[p][t] = <<"Err", "Err">> /\ final[p][t] = "failed"
    /\ outcomes[p][u] = <<"Err", "Ok">> /\ final[p][u] = "ok"

\* C7: in a cycle, recovery is invoked if and only if every target used up its
\* budget without a success and the recovery plan is not empty; whether a
\* target declares a port plays no part.
C7_AggregateTrigger ==
  \A p \in Calls :
    /\ pc[p] \in {"for_target", "ping", "backoff", "decide"} => ~recovery_invoked[p]
    /\ pc[p] \in RecoveryPcs => recovery_invoked[p]
    /\ pc[p] \in RecoveryPcs \cup {"sleep"} =>
         ( recovery_invoked[p] <=>
             /\ \A t \in 1..NTargets :
                  Len(outcomes[p][t]) = N(t) /\ AllErr(outcomes[p][t])
             /\ config.recovery_actions # <<>> )

\* Recovery was invoked for two failed targets, one of which declares a port.
C7_Witness ==
  \E p \in Calls :
    /\ recovery_invoked[p]
    /\ NTargets = 2
    /\ config.targets[1].port # None
    /\ Len(outcomes[p][2]) >= 1

\* One reachable target among failed ones: no recovery.
C7_WitnessSuppressed ==
  \E p \in Calls :
    /\ pc[p] = "sleep" /\ ~recovery_invoked[p]
    /\ config.recovery_actions # <<>>
    /\ \E t, u \in 1..NTargets : final[p][t] = "failed" /\ final[p][u] = "ok"

\* C8: in a recovery run the actions are attempted in declared order, and
\* once the command of an action has failed no later action is attempted.
C8_FailingActionHaltsPlan ==
  \A p \in Calls : \A k \in 1..Len(run_log[p]) :
    /\ run_log[p][k].action = k
    /\ run_log[p][k].cmd = "failed" => k = Len(run_log[p])

\* C9: when the command of a recovery action failed, the result of the
\* recovery run is a failure.
C9_CommandFailureIsReported ==
  \A p \in Calls :
    (rec_result[p] # "none" /\ \E k \in 1..Len(run_log[p]) : run_log[p][k].cmd = "failed")
    => rec_result[p] = "Err"

\* C10: a recovery run stops at the first action whose command succeeded and
\* whose verification probe succeeded: the actions before it were attempted in
\* order and none after it is.
C10_StopsAtVerifiedAction ==
  \A p \in Calls : \A k \in 1..Len(run_log[p]) :
    /\ run_log[p][k].action = k
    /\ run_log[p][k].verify = "ok" =>
         /\ k = Len(run_log[p])
         /\ action[p] = k
         /\ pc[p] \in {"rec_notify", "rec_return", "sleep", "loop_head"}

\* [A (command ok, verification fails), B (command ok, verification ok), C]:
\* the run is over and C was not attempted.
C10_Witness ==
  \E p \in Calls :
    /\ NActions = 3
    /\ pc[p] = "sleep"
    /\ Len(run_log[p]) = 2
    /\ run_log[p][1].cmd = "ok" /\ run_log[p][1].verify = "failed"
    /\ run_log[p][2].cmd = "ok" /\ run_log[p][2].verify = "ok"

\* C11: in a recovery run, every action whose command succeeded is followed,
\* after its post-wait when it declares one and before the next action starts,
\* by exactly one probe of the configured default target that is bounded by the
\* global default timeout; an action whose command failed is followed by no
\* verification probe.
C11_OneVerificationProbePerSuccess ==
  \A p \in Calls : \A k \in 1..Len(run_log[p]) :
    LET r == run_log[p][k] IN
    /\ r.cmd = "failed" => (r.probes = <<>> /\ r.verify = "none")
    /\ r.cmd = "pending" => (r.probes = <<>> /\ r.verify = "none" /\ ~r.waited)
    /\ (r.cmd = "ok" /\ (k < Len(run_log[p]) \/ pc[p] \notin {"rec_wait", "rec_verify"}))
         => r.verify # "none"
    /\ r.verify = "none" => r.probes = <<>>
    /\ r.verify # "none" =>
         /\ r.cmd = "ok"
         /\ r.waited <=> (config.recovery_actions[k].wait_after_ms # None)
         /\ r.probes = <<[host |-> config.default_target,
                          timeout |-> Some(config.ping_timeout_ms)]>>

\* C12: in a recovery run the notification command is executed at most once,
\* and only after a successful verification probe with notifications enabled
\* and a command configured; whether it succeeded or failed, the run returns
\* success and attempts no further action.
C12_NotificationOnceAndHarmless ==
  \A p \in Calls :
    /\ Len(notified[p]) <= 1
    /\ (pc[p] = "rec_notify" \/ notified[p] # <<>>) =>
         /\ run_log[p] # <<>>
         /\ LastRun(p).verify = "ok"
         /\ action[p] = Len(run_log[p])
         /\ config.notification_enabled
         /\ config.notification_command # None
    /\ notified[p] # <<>> =>
         /\ rec_result[p] = "Ok"
         /\ pc[p] \in {"rec_return", "sleep", "loop_head"}

\* The notification command failed after the first of several actions was
\* verified; the run returned Ok and the loop is in its cadence sleep.
C12_Witness ==
  \E p \in Calls :
    /\ notified[p] = <<"Err">>
    /\ pc[p] = "sleep"
    /\ rec_result[p] = "Ok"
    /\ Len(run_log[p]) < NActions

\* Every action of the plan was attempted and none was verified.
PlanExhausted(p) ==
  /\ NActions >= 1
  /\ Len(run_log[p]) = NActions
  /\ \A k \in 1..NActions :
       /\ run_log[p][k].cmd # "pending"
       /\ run_log[p][k].cmd = "ok" => run_log[p][k].verify = "failed"

\* C13: when the plan is exhausted without a successful verification the
\* recovery run returns without error, start_monitoring does not return, and
\* the loop goes on to its cadence sleep and from there to the next probe
\* cycle (unless the task is stopped while it sleeps).
C13_ExhaustedPlanIsNotAnError ==
  [][\A p \in Calls :
       (PlanExhausted(p) /\ pc'[p] # pc[p]) =>
         /\ pc[p] = "rec_for" => (pc'[p] = "rec_return" /\ rec_result'[p] = "Ok")
         /\ pc[p] = "rec_return" => (pc'[p] = "sleep" /\ result'[p] = "none")
         /\ pc[p] = "sleep" => pc'[p] \in {"loop_head", "aborted"}
         /\ (pc[p] = "loop_head" /\ running[p]) => pc'[p] = "for_target"]_vars

\* The plan of two actions ended unverified (one failed verification, one
\* failed command), the cadence sleep is over and the next cycle is about to
\* start.
C13_Witness ==
  \E p \in Calls :
    /\ pc[p] = "loop_head" /\ running[p]
    /\ NActions = 2
    /\ PlanExhausted(p)
    /\ run_log[p][1].verify = "failed"
    /\ run_log[p][2].cmd = "failed"
    /\ rec_result[p] = "Ok"

\* The program points of the loop of start_monitoring (monitor/mod.rs:74-122).
LoopPcs == {"loop_head", "for_target", "ping", "backoff", "decide", "sleep"} \cup RecoveryPcs

\* C14: once the loop is entered, start_monitoring returns only from the head
\* of the loop with the Ctrl+C flag observed cleared, and then with Ok: no
\* failure of a probe, a command, a verification or a notification makes it
\* return.  The only other way out of the loop is the abort of the task.
C14_FailuresNeverEndTheLoop ==
  [][\A p \in Calls :
       (pc[p] \in LoopPcs /\ pc'[p] \notin LoopPcs) =>
         \/ pc[p] = "loop_head" /\ ~running[p] /\ pc'[p] = "returned" /\ result'[p] = "Ok"
         \/ pc'[p] = "aborted"]_vars

\* Every probe failed, then a command failed, a verification failed and the
\* notification failed: the loop is in its cadence sleep, not returned.
C14_Witness ==
  \E p \in Calls :
    /\ pc[p] = "sleep" /\ result[p] = "none"
    /\ \A t \in 1..NTargets : final[p][t] = "failed"
    /\ Len(run_log[p]) = 3
    /\ run_log[p][1].cmd = "failed"
    /\ run_log[p][2].verify = "failed"
    /\ run_log[p][3].verify = "ok"
    /\ notified[p] = <<"Err">>

\* The failed attempts of o that are not the last of a budget of n attempts.
FailedBeforeLast(o, n) == {k \in 1..Len(o) : o[k] = "Err" /\ k < n}

\* C20: in a cycle, for every target the 500 ms backoffs are exactly the ones
\* after a failed attempt that is not the last of the budget N: attempts
\* 1..N-1 when all N fail, attempts 1..k-1 when attempt k succeeds, none after
\* a success or after the final failure (and none for a budget of 0, which
\* has no attempt); and the loop is in a backoff only right after such a
\* failed attempt.
C20_BackoffBetweenAttempts ==
  \A p \in Calls : \A t \in 1..Len(outcomes[p]) :
    LET o == outcomes[p][t]
        m == Cardinality(FailedBeforeLast(o, N(t)))
    IN
    /\ backoffs[p][t] = [k \in 1..m |-> k]
    /\ (final[p][t] = "failed" /\ N(t) >= 1) => Len(backoffs[p][t]) = N(t) - 1
    /\ final[p][t] = "ok" => Len(backoffs[p][t]) = Len(o) - 1
    /\ (pc[p] = "backoff" /\ target[p] = t) =>
         /\ o # <<>> /\ o[Len(o)] = "Err"
         /\ Len(o) < N(t)
         /\ attempt[p] = Len(o)

\* With a budget of two attempts, one target failed twice (one backoff) and
\* another succeeded on its second attempt (one backoff).
C20_Witness ==
  \E p \in Calls : \E t, u \in 1..Len(outcomes[p]) :
    /\ N(t) = 2 /\ outcomes[p][t] = <<"Err", "Err">> /\ backoffs[p][t] = <<1>>
    /\ N(u) = 2 /\ outcomes[p][u] = <<"Err", "Ok">> /\ backoffs[p][u] = <<1>>

\* C15: in a process started without a subcommand and with a loadable
\* configuration, as long as no Ctrl+C was pressed the spawned
\* start_monitoring has not returned: it is on its way into the loop or
\* probing in it.
C15_ForegroundLoopRunsUntilInterrupt ==
  (main_pc = "recv" /\ rx = 0) =>
    \A p \in 1..ncalls : pc[p] # "returned"

\* C16: when start_monitoring could not install its Ctrl+C handler in a
\* foreground run, the process ends with a non-zero exit code.
C16_HandlerFailureFailsTheProcess ==
  \A p \in 1..ncalls :
    (main_pc = "exited" /\ pc[p] = "returned" /\ result[p] = "Err")
    => exit_code # Some(0)

\* C17: the loop is left only at its head, with the Ctrl+C flag read as
\* cleared, and a recovery run that has begun ends only by returning to the
\* loop: no shutdown path takes a call out of the middle of a cycle or of a
\* recovery run.
C17_ShutdownOnlyAtCycleBoundary ==
  [][\A p \in Calls :
       /\ (pc[p] \in LoopPcs /\ pc'[p] \notin LoopPcs)
            => (pc[p] = "loop_head" /\ ~running[p])
       /\ (pc[p] \in RecoveryPcs /\ pc'[p] \notin RecoveryPcs)
            => (pc[p] = "rec_return" /\ pc'[p] = "sleep")]_vars

\* The loop instances of the process that are making a probe or a port check.
ProbingCalls == {p \in Calls : pc[p] = "ping"}
ProbingThreads == {t \in Threads : thread_pc[t] \in {"ping", "port"}}

\* A recovery run is executing: the coordinator of a loop, or the dashboard's
\* recovery thread.
RecoveringCalls == {p \in Calls : pc[p] \in RecoveryPcs}

\* C18: at any time at most one loop instance of the process (a
\* start_monitoring call or a dashboard monitoring thread) is probing, at most
\* one recovery run is executing, and nothing probes while a recovery run is
\* executing.
C18_NoOverlappingCyclesOrRuns ==
  /\ Cardinality(ProbingCalls) + Cardinality(ProbingThreads) <= 1
  /\ Cardinality(RecoveringCalls) + (IF rt_pc \in {"exec", "wait"} THEN 1 ELSE 0) <= 1
  /\ (RecoveringCalls # {} \/ rt_pc \in {"exec", "wait"})
       => (ProbingCalls = {} /\ ProbingThreads = {})

\* monitor/mod.rs:78-112.  The TCP-connect checks that a cycle of
\* start_monitoring call p makes for target t: the body of the target loop
\* calls network::ping_host only, check_port is not called.
port_checks(p, t) == 0

\* C19: when a cycle of the monitor loop has gone through its targets, each
\* target that declares a port got exactly one TCP-connect check and each
\* target without a port got none.
C19_OnePortCheckPerPortTarget ==
  \A p \in Calls :
    pc[p] \in {"decide", "sleep"} \cup RecoveryPcs =>
      \A t \in 1..NTargets :
        port_checks(p, t) = IF config.targets[t].port # None THEN 1 ELSE 0

\* The monitoring threads of the dashboard that were spawned; none of them
\* ever leaves its polling loop.
PollingThreads == {t \in Threads : thread_pc[t] # "unspawned"}

\* C30: in the dashboard, whatever Start and Stop clicks were made, at most
\* one monitoring thread is polling targets.
C30_OnePollingThread ==
  Cardinality(PollingThreads) <= 1

\* C23: while the dashboard's recovery thread executes a command or sits in
\* a post-wait, and while a monitoring thread pings, checks a port or sleeps,
\* that thread does not hold the configuration lock.
C23_NoLockAcrossIO ==
  /\ rt_pc \in {"exec", "wait"} => config_lock # "recovery"
  /\ \A t \in Threads :
       thread_pc[t] \in {"ping", "port", "sleep"} => config_lock \in {"free", "recovery"}

\* C28: in a foreground run, once the interrupt was received main can always
\* go on to return, whatever the monitoring task is doing; and when main has
\* returned the task has finished or was ended with the process.
C28_BoundedGracePeriod ==
  /\ main_pc = "join" => ENABLED MainJoin
  /\ main_pc = "exited" => \A p \in 1..ncalls : pc[p] \in {"returned", "aborted"}

\* main returned after the interrupt although the task had not finished.
C28_Witness ==
  /\ main_pc = "exited"
  /\ exit_code = Some(0)
  /\ ncalls = 1 /\ pc[1] = "aborted"

\* Mutant of targets_failed: the flag is assigned from each target, so the
\* last target decides.
RECURSIVE targets_failed_LastWins(_, _)
targets_failed_LastWins(successes, all_failed) ==
  IF successes = <<>> THEN all_failed
  ELSE targets_failed_LastWins(Tail(successes), ~Head(successes))

\* monitor/mod.rs:75-112.  The value of all_targets_failed after the target
\* loop went through targets whose retry loops ended with the given success
\* flags, in that order: the flag starts as all_failed and is cleared by each
\* target that succeeded.
RECURSIVE targets_failed(_, _)
targets_failed(successes, all_failed) ==
  IF successes = <<>> THEN all_failed
  ELSE targets_failed(Tail(successes), IF Head(successes) THEN FALSE ELSE all_failed)

\* monitor/mod.rs:75, 115.  The aggregate decision of a cycle: recovery is
\* invoked or not.
aggregate_decision(successes, recovery_actions) ==
  targets_failed(successes, TRUE) /\ recovery_actions # <<>>

\* C22: at the end of the target loop of a cycle, the decision the loop takes
\* is the aggregate decision of the targets' outcomes, and the aggregate
\* decision of the same outcomes with the targets in any other order is the
\* same.
C22_DecisionIsOrderIndependent ==
  \A p \in Calls :
    pc[p] \in {"decide", "sleep"} \cup RecoveryPcs =>
      LET succ == [t \in 1..NTargets |-> final[p][t] = "ok"]
          d == aggregate_decision(succ, config.recovery_actions)
      IN
      /\ pc[p] # "decide" => recovery_invoked[p] = d
      /\ \A f \in Permutations(1..NTargets) :
           aggregate_decision([t \in 1..NTargets |-> succ[f[t]]],
                              config.recovery_actions) = d

\* A cycle over two targets of which the first answered and the second did
\* not, with a recovery plan: no recovery, the same as for the other order.
C22_Witness ==
  \E p \in Calls :
    /\ pc[p] = "sleep"
    /\ NTargets = 2
    /\ final[p] = <<"ok", "failed">>
    /\ config.recovery_actions # <<>>
    /\ ~recovery_invoked[p]

\* C21: each probe and each port check that a monitoring thread of the
\* dashboard makes is bounded by the timeout of its target: the target's
\* timeout_ms when it has one, else the global ping_timeout_ms.
C21_ChecksUseTargetTimeout ==
  \A t \in Threads :
    thread_pc[t] \in {"ping", "port"} =>
      thread_check(t).timeout =
        Some(get_target_timeout([ping_timeout_ms |-> thread_snapshot[t].ping_timeout],
                                ThreadTarget(t)))

\* C24: once a configuration replacement was made in the dashboard, the
\* status map holds one entry for each target of the current configuration
\* and no entry for any other name.
C24_StatusMapMatchesTargets ==
  saves > 0 => DOMAIN target_statuses = Names(config.targets)

\* C25: no step changes the plan of a recovery run that is in flight.  While
\* the dashboard's recovery thread is executing an action or in a post-wait
\* the recovery_actions stay as they are and the thread goes from one action
\* to the next one in the list; while a start_monitoring call is in its loop
\* or in a recovery run its configuration stays as it is; and a step that
\* replaces the configuration is taken with the configuration lock free
\* before and after it, i.e. it is one swap made under the lock.
C25_PlanOfRunNeverChanges ==
  [][ /\ rt_pc \in {"exec", "wait"} =>
           /\ config'.recovery_actions = config.recovery_actions
           /\ rt_action' \in {0, rt_action, rt_action + 1}
      /\ (\E p \in 1..ncalls : InBody(p)) => config' = config
      /\ config' # config => config_lock = "free" /\ config_lock' = "free"
    ]_vars

\* A recovery run of the dashboard is executing its plan and a replacement
\* that the settings editor wants to make has to wait.
C25_Witness ==
  /\ rt_pc \in {"exec", "wait"}
  /\ main_pc = "gui"
  /\ saves < MaxSaves
  /\ ~ENABLED GuiSaveConfig

\* gui/mod.rs:34-38.  TargetStatus::is_ok: the ping result is Some(Ok) and
\* the status has no port or its port result is Some(Ok).
is_ok(status) ==
  /\ status.ping_result # None /\ status.ping_result[1] = "Ok"
  /\ \/ status.port = None
     \/ status.port_result # None /\ status.port_result[1] = "Ok"

\* C26: the dashboard reports a target of the configuration as online exactly
\* when the last ping stored for it was a success and the target has no port
\* configured or the last port check stored for it was a success.
C26_OnlineMeansProbeAndPortOk ==
  main_pc = "gui" =>
  \A i \in 1..Len(config.targets) :
    LET tg == config.targets[i] IN
    tg.name \in DOMAIN target_statuses =>
      LET status == target_statuses[tg.name] IN
      is_ok(status) <=>
        /\ status.ping_result = Some("Ok")
        /\ tg.port = None \/ status.port_result = Some("Ok")

\* The number of checks of a kind ("ping" or "port") that the status pass
\* has made of target t.
StatusChecks(kind, t) ==
  Cardinality({i \in DOMAIN cs_checks : cs_checks[i].kind = kind /\ cs_checks[i].target = t})

\* C27: the status pass pings no target twice and checks a port only of a
\* target that declares one, at most once; when check_status has returned, it
\* has pinged each target once and checked each declared port once, whatever
\* the retry counts and the outcomes, it has returned Ok and main has ended
\* with success; and from its call on the monitoring guard is clear, no
\* start_monitoring call was made, and no recovery action and no notification
\* command was run.
C27_StatusIsOnePass ==
  /\ cs_pc # "none" =>
       /\ MONITORING_ACTIVE = FALSE
       /\ ncalls = 0
       /\ \A p \in Calls : pc[p] = "call" /\ run_log[p] = <<>> /\ notified[p] = <<>>
       /\ \A t \in 1..NTargets :
            /\ StatusChecks("ping", t) <= 1
            /\ StatusChecks("port", t) <= IF config.targets[t].port # None THEN 1 ELSE 0
  /\ cs_pc = "returned" =>
       /\ cs_result = Some("Ok")
       /\ main_pc = "exited" /\ exit_code = Some(0)
       /\ \A t \in 1..NTargets :
            /\ StatusChecks("ping", t) = 1
            /\ StatusChecks("port", t) = IF config.targets[t].port # None THEN 1 ELSE 0

\* A status pass over two targets, one of them with a port and a retry
\* count of its own, has returned after every check failed.
C27_Witness ==
  /\ cs_pc = "returned"
  /\ NTargets = 2
  /\ Len(cs_checks) = 3
  /\ \A i \in DOMAIN cs_checks : ~cs_checks[i].ok
  /\ cs_result = Some("Ok")

DecidedPcs == RecoveryPcs \cup {"sleep"}

\* C31: in a cycle a target whose effective retry count is 0 gets no probe, no
\* log line and no backoff, and once the for loop has passed it, it counts as
\* failed; and when the configuration has targets, all of them with a retry
\* count of 0, and a recovery plan that is not empty, every cycle that has
\* taken its decision has invoked recovery, with no probe made.
C31_ZeroBudgetCountsAsFailed ==
  \A p \in Calls :
    /\ \A t \in 1..Len(outcomes[p]) :
         N(t) = 0 =>
           /\ outcomes[p][t] = <<>> /\ logged[p][t] = 0 /\ backoffs[p][t] = <<>>
           /\ final[p][t] \in {"none", "failed"}
           /\ (pc[p] \in LoopPcs /\ t <= target[p]) => final[p][t] = "failed"
    /\ ( /\ pc[p] \in DecidedPcs
         /\ NTargets >= 1
         /\ \A t \in 1..NTargets : N(t) = 0
         /\ config.recovery_actions # <<>> ) =>
           /\ recovery_invoked[p]
           /\ \A t \in 1..NTargets : outcomes[p][t] = <<>> /\ final[p][t] = "failed"

\* Two targets with a retry count of 0, one by its own override and one by
\* the global count: the recovery run of the cycle is executing its action.
C31_Witness ==
  \E p \in Calls :
    /\ pc[p] = "rec_exec"
    /\ NTargets = 2
    /\ config.targets[1].retry_count = Some(0)
    /\ config.targets[2].retry_count = None /\ config.retry_count = 0
    /\ outcomes[p] = <<<<>>, <<>>>>

\* C32: with no target and a recovery plan that is not empty, every cycle
\* that has taken its decision has invoked recovery, and the cycle made no
\* probe.
C32_EmptyTargetsInvokeRecovery ==
  \A p \in Calls :
    (pc[p] \in DecidedPcs /\ config.targets = <<>> /\ config.recovery_actions # <<>>) =>
      /\ recovery_invoked[p]
      /\ outcomes[p] = <<>> /\ logged[p] = <<>> /\ final[p] = <<>>

\* With no target the cycle is in the recovery run, at the command of the
\* first action.
C32_Witness ==
  \E p \in Calls :
    /\ pc[p] = "rec_exec"
    /\ config.targets = <<>>
    /\ recovery_invoked[p]
    /\ action[p] = 1

\* C33: in the dashboard a recovery thread exists only while
\* recovery_in_progress is set and its promise is pending, and
\* recovery_in_progress is set exactly while there is a promise; a step starts
\* a recovery thread only when recovery_in_progress is clear and no recovery
\* thread exists; a finished run, with Ok or with Err, can always be taken up
\* by a UI update; and recovery_in_progress is cleared only by the step that
\* finds the promise ready and drops it.
C33_OneManualRecoveryRun ==
  [][ /\ rt_pc' # "none" => recovery_in_progress' /\ recovery_promise' = "pending"
      /\ recovery_in_progress' <=> recovery_promise' # "none"
      /\ (rt_pc' = "lock" /\ rt_pc # "lock") => ~recovery_in_progress /\ rt_pc = "none"
      /\ recovery_promise \in {"Ok", "Err"} => ENABLED GuiUpdate
      /\ (recovery_in_progress /\ ~recovery_in_progress') =>
           /\ recovery_promise \in {"Ok", "Err"}
           /\ recovery_promise' = "none"
           /\ rt_pc = "none"
    ]_vars

\* A run has ended with a failure and no UI update came yet: a request for
\* another run starts nothing, and the update is due.
C33_Witness ==
  /\ recovery_promise = "Err"
  /\ recovery_in_progress
  /\ rt_pc = "none"
  /\ ~ENABLED GuiPerformRecovery
  /\ ENABLED GuiUpdate

RECURSIVE gui_perform_recovery(_, _, _)
\* gui/mod.rs:240-277.  The dashboard's recovery run over the actions k.. of
\* the plan, cmds[i] being the outcome of the command of action i: the actions
\* it attempts and its result.  A failed command returns Err at once; there is
\* no verification probe, and the run goes on to the end of the plan.
gui_perform_recovery(plan, cmds, k) ==
  IF k > Len(plan)
    THEN [attempted |-> <<>>, result |-> "Ok"]
    ELSE IF cmds[k] = "ok"
           THEN LET rest == gui_perform_recovery(plan, cmds, k + 1)
                IN [attempted |-> <<k>> \o rest.attempted, result |-> rest.result]
           ELSE [attempted |-> <<k>>, result |-> "Err"]

\* C34: when a recovery run of the monitor loop has ended, the dashboard's
\* recovery run over the same plan, with the same outcome for each command
\* (and any outcome for the commands the loop's run did not come to), attempts
\* the same actions in the same order and ends with the same result.
C34_RecoveryRunsAgree ==
  \A p \in Calls :
    rec_result[p] # "none" =>
      \A cmds \in [1..NActions -> {"ok", "failed"}] :
        (\A k \in 1..Len(run_log[p]) : cmds[k] = run_log[p][k].cmd) =>
          LET g == gui_perform_recovery(config.recovery_actions, cmds, 1) IN
          /\ g.attempted = [k \in 1..Len(run_log[p]) |-> run_log[p][k].action]
          /\ g.result = rec_result[p]

\* The two status sequences of service_main.
StopSequence ==
  << <<"StartPending", Win32(0)>>, <<"Running", Win32(0)>>, <<"Stopped", Win32(0)>> >>

FailureSequence ==
  << <<"StartPending", Win32(0)>>, <<"Stopped", ServiceSpecific(1)>> >>

IsPrefix(s, t) == Len(s) <= Len(t) /\ \A i \in 1..Len(s) : s[i] = t[i]

\* C35: the statuses reported to the OS are, in order, StartPending, Running,
\* Stopped with exit code 0, or StartPending, Stopped with the service-specific
\* exit code 1.  Stopped with exit code 0 is reported only after a Stop request
\* and after the abort of the monitoring task; the monitoring task is spawned
\* only after Running was reported, and not at all when the configuration
\* failed to load.
C35_ServiceStatusSequence ==
  main_pc \in ServicePcs =>
    /\ IsPrefix(Reported, StopSequence) \/ IsPrefix(Reported, FailureSequence)
    /\ \A i \in 1..Len(svc_log) :
         /\ ( svc_log[i].ev = "status" /\ svc_log[i].current_state = "Stopped"
              /\ svc_log[i].exit_code = Win32(0) ) =>
                /\ \E j \in 1..(i - 1) : svc_log[j].ev = "stop"
                /\ \E j \in 1..(i - 1) : svc_log[j].ev = "abort"
                /\ pc[1] # "call"
         /\ svc_log[i].ev = "spawn" =>
              \E j \in 1..(i - 1) :
                svc_log[j].ev = "status" /\ svc_log[j].current_state = "Running"
         /\ svc_log[i].ev = "abort" =>
              \E j \in 1..(i - 1) : svc_log[j].ev = "spawn"
    /\ ncalls >= 1 <=> \E i \in 1..Len(svc_log) : svc_log[i].ev = "spawn"
    /\ Reported = FailureSequence =>
         /\ ncalls = 0
         /\ main_pc = "service_returned"
         /\ \A i \in 1..Len(svc_log) : svc_log[i].ev = "status"
    /\ main_pc = "service_returned" => Reported \in {StopSequence, FailureSequence}

\* The service was stopped: the three statuses were reported and the
\* monitoring task, which had not run yet, was aborted before the last one.
C35_Witness ==
  /\ main_pc = "service_returned"
  /\ Reported = StopSequence
  /\ pc[1] = "aborted"
  /\ svc_log[Len(svc_log) - 1].ev = "abort"

\* utils/mod.rs:27-48.  File::create is called only in the closure of
\* setup_file_logger, which installs the file logger when the file was
\* created: the process has created a log file exactly when its logger is the
\* file logger.
LogFileCreated == logger = "file"

\* C36: once a logger is installed it stays the process's logger, and after
\* the first setup call no later one changes anything.  When the console
\* logger is set up before start_monitoring's log-file setup step, that step
\* installs nothing, creates no log file, and goes on to the next step of
\* start_monitoring; the step never makes start_monitoring return.
C36_FirstLoggerSetupWins ==
  [][ /\ logger # "none" => logger' = logger
      /\ LOGGER_INIT => (LOGGER_INIT' /\ logger' = logger)
      /\ \A p \in Calls :
           /\ pc[p] = "setup_logger" => (pc'[p] # "returned" /\ result'[p] = "none")
           /\ (pc[p] = "setup_logger" /\ pc'[p] = "set_handler" /\ logger = "console") =>
                /\ logger' = "console"
                /\ ~LogFileCreated'
    ]_vars

\* main has set up the console logger, and the spawned start_monitoring, whose
\* configuration names a log file, is past its log-file setup step.
C36_Witness ==
  /\ main_pc = "recv"
  /\ config.log_file # None
  /\ pc[1] = "set_handler"
  /\ logger = "console"
  /\ ~LogFileCreated

====
